---------------------------- MODULE Spec2Model ----------------------------
(***************************************************************************)
(* Fetch-dispatch-and-ingestion pipeline of scrollfeed-services.           *)
(*                                                                         *)
(*  SpecStore  the bulk upserts of news-fetcher-service (storeArticles)    *)
(*             and of the video fetcher (storeVideos) run by concurrent    *)
(*             fetchers against the "articles" / "videos" collections.     *)
(*  SpecVideo  the video worker: a plain NATS subscription on              *)
(*             "fetch.videos" and its handler.                             *)
(*  Spec       the news-fetcher worker: the NEWS_FETCH work-queue stream,  *)
(*             the per-instance pull consumer, processMessages,            *)
(*             handleFetchRequest and FetchRegionNews.                     *)
(***************************************************************************)
EXTENDS Integers, Sequences, FiniteSets, TLC

(***************************************************************************)
(* Bounds of the model.                                                    *)
(***************************************************************************)
\* longest batch handed to one BulkWrite in SpecStore
MaxBatch == 2
\* batches one fetcher writes in SpecStore
MaxBatches == 1

\* worker processes (replicas of one service)
Instances == {"w1", "w2"}
\* scopes: regions of worker.go:362 (a subset)
Regions == {"us", "in"}
\* natural keys (article URL / videoId) the upstream can return
Keys == {"k1", "k2"}
\* display fields
Titles == {"A", "B"}
Collections == {"articles", "videos"}

None == "none"

(***************************************************************************)
(* The Store.  A collection is a set of documents; id is MongoDB's _id,    *)
(* key the natural key (url / videoId), scope the topic / region field.    *)
(***************************************************************************)
VARIABLES
    articles,     \* collection "articles" of newsdb
    videos,       \* collection "videos" of videosdb
    nextId,       \* next _id the server hands out
    uniqueIndex,  \* uniqueIndex[c]: the unique index on c's natural key exists
    bw,           \* bw[w]: the BulkWrite fetcher w has in flight
    lastUp,       \* the upsert the last step completed (coll = None otherwise)
    sf            \* sf[w]: the fetcher of w in SpecStore: its collection, its batches

storeVars == <<articles, videos, nextId, uniqueIndex, bw, lastUp>>

VARIABLES
    published,   \* the requests published to news.fetch.request, by stream sequence
    inStream,    \* sequences NEWS_FETCH still stores (work queue: an ack removes)
    consumer,    \* the consumer on news.fetch.request, if one exists
    inst,        \* inst[w]: the process of worker w
    h,           \* h[w]: processMessages / handleFetchRequest of worker w
    last,        \* the handleFetchRequest call that returned in the last step
    total,       \* total[s]: deliveries of sequence s over all consumers
    acked,       \* acked[s]: an Ack a handler called for s: "no", or "full" /
                 \* "partial" as every page was fetched / some page failed
    nonzero,     \* sequences with a delivery that did not end in zero articles
    starts       \* processes started so far

VARIABLES
    vsub,        \* the workers subscribed to "fetch.videos"
    vreqs,       \* the requests published to "fetch.videos", in order
    vinbox,      \* vinbox[w]: messages the subscription of w holds for its callback
    vh,          \* vh[w]: handleFetchRequest of video worker w
    vrecv,       \* vrecv[i]: the workers whose callback received request i
    vlast        \* the handleFetchRequest call that returned in the last step

queueVars == <<published, inStream, consumer, inst, h, last, total, acked, nonzero,
               starts>>

videoVars == <<vsub, vreqs, vinbox, vh, vrecv, vlast>>

VARIABLES
    ing          \* one FetchRegionNews call followed from its pages to the Store

VARIABLES
    svc,         \* the service whose schedulers run: "news" or "video"
    clock,       \* time.Now(), in ticks of half a second
    sch,         \* sch[w]: startScheduler of instance w
    queue,       \* the FetchRequests enqueued on the Task Queue
    trig         \* the manual fetch trigger: the call in progress or last returned

schedVars == <<svc, clock, sch, queue, trig>>

VARIABLES
    feeds,       \* feeds[c]: the viral-stories / memes collection c
    refresh      \* refresh[c]: refreshViral / refreshMemes of collection c

refreshVars == <<feeds, refresh>>

VARIABLES
    lib,         \* lib[d]: record d of the collection the Read API queries
    readNow,     \* time.Now() of the Read API, in seconds
    reads        \* the queries one client made, in order, with what they returned

readVars == <<lib, readNow, reads>>

\* one worker pool and its consumer on news.fetch.request
VARIABLES pool
poolVars == <<pool>>

VARIABLES
    cyc,       \* one scheduled fetch cycle: its requests, their deliveries and page fetches
    manual,    \* the refreshViral goroutine that triggerRefresh started
    trigAll    \* the TriggerAllRegionsFetch call of POST /news-api/fetch-all
lateVars == <<cyc, manual, trigAll>>

auxVars == <<ing, schedVars, refreshVars, readVars, poolVars, lateVars>>

Coll(c) == IF c = "articles" THEN articles ELSE videos

Matching(coll, key) == {d \in coll : d.key = key}

NoUp == [coll |-> None, item |-> [key |-> None, title |-> None, scope |-> None],
         existed |-> FALSE]

Up(c, it, existed) == [coll |-> c, item |-> it, existed |-> existed]

HasDuplicates(coll) == \E d1 \in coll, d2 \in coll : d1.key = d2.key /\ d1.id # d2.id

\* An article / video as fetchPage / fetchTrendingVideos returns it: the
\* scope (Topic / Region) is the request's.
Item(key, title, scope) == [key |-> key, title |-> title, scope |-> scope]

Items == {Item(k, t, s) : k \in Keys, t \in Titles, s \in Regions}

\* ReplaceOne(filter {url: key}, replacement) / UpdateOne(filter {videoId: key},
\* $set of every field) on the matched document m: _id kept, fields overwritten.
ReplaceDoc(coll, m, it) ==
    (coll \ {m}) \cup {[id |-> m.id, key |-> m.key, title |-> it.title, scope |-> it.scope]}

\* The insert half of an upsert that matched nothing.
InsertDoc(coll, id, it) ==
    coll \cup {[id |-> id, key |-> it.key, title |-> it.title, scope |-> it.scope]}

\* SetOrdered(false) in storeArticles; storeVideos passes no options, and
\* BulkWrite is ordered by default.
Ordered(c) == c = "videos"

\* the operations of a bulk write that may run next
Eligible(b) ==
    IF Ordered(b.coll)
    THEN {i \in b.todo : \A j \in b.todo : i <= j}
    ELSE b.todo

IdleBulk == [pc |-> "idle", coll |-> None, ops |-> <<>>, todo |-> {}, cur |-> 0,
             err |-> FALSE, skipped |-> {}]

\* ensureIndexes: CreateMany / CreateOne of the unique index; a failure is only
\* logged and the fetcher is used without the index.
EnsureIndexes(c, ok) ==
    uniqueIndex' = [uniqueIndex EXCEPT
                      ![c] = @ \/ (ok /\ ~HasDuplicates(Coll(c)))]

SetColl(c, v) ==
    /\ articles' = IF c = "articles" THEN v ELSE articles
    /\ videos' = IF c = "videos" THEN v ELSE videos

\* One operation of the bulk write: the query phase of the upsert.  A match is
\* replaced in place (document-level atomic); a miss commits the operation to
\* an insert, which is a second step of the server.
BulkOp(w, i) ==
    LET b == bw[w]
        it == b.ops[i]
        ms == Matching(Coll(b.coll), it.key)
    IN /\ b.pc = "bulk"
       /\ i \in Eligible(b)
       /\ IF ms # {}
          THEN \E m \in ms :
                 /\ SetColl(b.coll, ReplaceDoc(Coll(b.coll), m, it))
                 /\ bw' = [bw EXCEPT ![w].todo = @ \ {i}]
                 /\ lastUp' = Up(b.coll, it, TRUE)
          ELSE /\ bw' = [bw EXCEPT ![w].pc = "insert", ![w].cur = i]
               /\ lastUp' = NoUp
               /\ UNCHANGED <<articles, videos>>
       /\ UNCHANGED <<nextId, uniqueIndex>>

\* The insert phase (lastUp.existed: the upsert found its key in the Store).
\* With the unique index a key inserted meanwhile raises a
\* duplicate-key error and the server retries the upsert as an update;
\* without it the insert goes through.
BulkInsert(w) ==
    LET b == bw[w]
        it == b.ops[b.cur]
        ms == Matching(Coll(b.coll), it.key)
    IN /\ b.pc = "insert"
       /\ IF uniqueIndex[b.coll] /\ ms # {}
          THEN /\ \E m \in ms : SetColl(b.coll, ReplaceDoc(Coll(b.coll), m, it))
               /\ lastUp' = Up(b.coll, it, TRUE)
               /\ UNCHANGED nextId
          ELSE /\ SetColl(b.coll, InsertDoc(Coll(b.coll), nextId, it))
               /\ nextId' = nextId + 1
               /\ lastUp' = Up(b.coll, it, FALSE)
       /\ bw' = [bw EXCEPT ![w].pc = "bulk", ![w].cur = 0, ![w].todo = @ \ {b.cur}]
       /\ UNCHANGED uniqueIndex

\* One operation fails with a write error: an unordered bulk write goes on
\* with the others, an ordered one stops and skips the operations after it.
BulkOpFail(w, i) ==
    LET b == bw[w]
    IN /\ b.pc = "bulk"
       /\ i \in Eligible(b)
       /\ bw' = [bw EXCEPT ![w].err = TRUE,
                           ![w].todo = IF Ordered(b.coll) THEN {} ELSE @ \ {i},
                           ![w].skipped = IF Ordered(b.coll) THEN b.todo \ {i} ELSE {}]
       /\ lastUp' = NoUp
       /\ UNCHANGED <<articles, videos, nextId, uniqueIndex>>

\* storeArticles / storeVideos hand the operations to collection.BulkWrite.
BeginBulk(w, c, ops) ==
    bw' = [bw EXCEPT ![w] = [pc |-> "bulk", coll |-> c, ops |-> ops,
                             todo |-> 1..Len(ops), cur |-> 0, err |-> FALSE,
                             skipped |-> {}]]

BulkDone(w) == bw[w].pc = "bulk" /\ bw[w].todo = {}

(***************************************************************************)
(* SpecStore: fetchers writing batches concurrently.                       *)
(***************************************************************************)
\* the batches a fetch for one scope can hand to the Store
Batches(scope) ==
    UNION {[1..n -> {Item(k, t, scope) : k \in Keys, t \in Titles}] : n \in 1..MaxBatch}

\* NewFetcher: the fetcher of one service is built and ensureIndexes runs.
StoreNewFetcher(w) ==
    /\ ~sf[w].ready
    /\ sf' = [sf EXCEPT ![w].ready = TRUE]
    /\ \E ok \in BOOLEAN : EnsureIndexes(sf[w].coll, ok)
    /\ lastUp' = NoUp
    /\ UNCHANGED <<articles, videos, nextId, bw, queueVars, videoVars, auxVars>>

\* storeArticles(ctx, articles) / storeVideos(ctx, videos, region, category)
\* with a non-empty list.
StoreBegin(w) ==
    /\ sf[w].ready
    /\ bw[w].pc = "idle"
    /\ sf[w].n < MaxBatches
    /\ \E scope \in Regions : \E ops \in Batches(scope) : BeginBulk(w, sf[w].coll, ops)
    /\ lastUp' = NoUp
    /\ UNCHANGED <<articles, videos, nextId, uniqueIndex, sf, queueVars, videoVars, auxVars>>

StoreOp(w) ==
    /\ \E i \in bw[w].todo : BulkOp(w, i)
    /\ UNCHANGED <<sf, queueVars, videoVars, auxVars>>

StoreInsert(w) ==
    /\ BulkInsert(w)
    /\ UNCHANGED <<sf, queueVars, videoVars, auxVars>>

StoreOpFail(w) ==
    /\ \E i \in bw[w].todo : BulkOpFail(w, i)
    /\ UNCHANGED <<sf, queueVars, videoVars, auxVars>>

\* BulkWrite returns.
StoreEnd(w) ==
    /\ BulkDone(w)
    /\ bw' = [bw EXCEPT ![w] = IdleBulk]
    /\ sf' = [sf EXCEPT ![w].n = @ + 1]
    /\ lastUp' = NoUp
    /\ UNCHANGED <<articles, videos, nextId, uniqueIndex, queueVars, videoVars, auxVars>>

StoreInit ==
    /\ articles = {}
    /\ videos = {}
    /\ nextId = 1
    /\ uniqueIndex = [c \in Collections |-> FALSE]
    /\ bw = [w \in Instances |-> IdleBulk]
    /\ lastUp = NoUp


(***************************************************************************)
(* The news-fetcher worker (news-fetcher-service/worker/worker.go, the     *)
(* pull-consumer version) and FetchRegionNews.                             *)
(***************************************************************************)
\* requests published to news.fetch.request in the model
MaxMsgs == 1
\* worker processes started in the model
MaxStarts == 2
\* items one upstream page returns in the model
MaxPageItems == 1
\* MaxPages of the FetchRequests in the model (the scheduler and the manual
\* trigger publish 4)
MaxPages == 2

\* consumerConfig.MaxDeliver
MaxDeliver == 3
\* config.WorkerCount, the consumer's MaxAckPending
WorkerCount == 3
\* "Limit articles to prevent overwhelming the database"
ArticleCap == 33

\* the display fields the upstream serves in this model
UpstreamTitles == {"A"}

Seqs == 1..MaxMsgs

NoConsumer == [exists |-> FALSE, name |-> <<None, 0>>,
               delivered |-> [s \in Seqs |-> 0], pending |-> {}, redeliver |-> {}]

\* NewWorker: "news-fetcher-" + hostname + "-" + time of start
ConsumerName(w) == <<w, inst[w].inc>>

IdleHandler == [pc |-> "idle", seq |-> 0, page |-> 0, all |-> <<>>, log |-> <<>>,
                cname |-> <<None, 0>>]

NoResult == [region |-> None, requestId |-> 0, success |-> FALSE, articleCount |-> 0, error |-> ""]

NoLast == [done |-> FALSE, w |-> None, seq |-> 0, decoded |-> FALSE, items |-> 0,
           anyFail |-> FALSE, storeErr |-> FALSE, expired |-> FALSE,
           result |-> NoResult, published |-> FALSE, ack |-> None, answers |-> <<>>]

Busy(w) == h[w].pc = "pages"

\* processMessages after a handler returned: the select takes ctx.Done() if
\* the context is cancelled, else the loop pulls again
AfterHandler(w) ==
    IF inst[w].st = "running" THEN IdleHandler ELSE [IdleHandler EXCEPT !.pc = "stopped"]

(* ---- the queue substrate: JetStream consumer state ---- *)

\* what the server hands to the next pull: redeliveries first, then the next
\* message the consumer has not delivered; never past MaxDeliver
Redeliverable(c) == {s \in c.redeliver \cap inStream : c.delivered[s] < MaxDeliver}

Fresh(c) == {s \in inStream : c.delivered[s] = 0}

Least(S) == CHOOSE s \in S : \A t \in S : s <= t

NextDelivery(c) ==
    IF Redeliverable(c) # {} THEN Least(Redeliverable(c))
    ELSE IF Fresh(c) # {} THEN Least(Fresh(c))
    ELSE 0

Deliver(c, s) ==
    [c EXCEPT !.delivered[s] = @ + 1,
              !.pending = @ \cup {s},
              !.redeliver = @ \ {s}]

\* msg.Ack() / msg.Nak() reach the consumer the message came from, if it is
\* still there
Reaches(cname) == consumer.exists /\ consumer.name = cname

AckEffect(c, s) == [c EXCEPT !.pending = @ \ {s}, !.redeliver = @ \ {s}]

NakEffect(c, s) ==
    IF s \in c.pending
    THEN [c EXCEPT !.pending = @ \ {s}, !.redeliver = @ \cup {s}]
    ELSE c

\* the queue after handler w answers its delivery with "ack" / "nak"
Answer(w, ans) ==
    LET s == h[w].seq
    IN IF ~Reaches(h[w].cname)
       THEN UNCHANGED <<consumer, inStream>>
       ELSE IF ans = "ack"
            THEN /\ consumer' = AckEffect(consumer, s)
                 /\ inStream' = inStream \ {s}
            ELSE /\ consumer' = NakEffect(consumer, s)
                 /\ UNCHANGED inStream

(* ---- FetchRegionNews ---- *)

\* the upstream serves page p of a region from that page's articles
PageKey(p) == IF p % 2 = 1 THEN "k1" ELSE "k2"

\* fetchPage: a transport error, a non-200 status or a decode error, or the
\* articles of the page with Topic set to the region
PageOutcomes(region, p) ==
    {[ok |-> FALSE, body |-> <<>>]} \cup
    {[ok |-> TRUE, body |-> b] :
        b \in UNION {[1..n -> {Item(PageKey(p), t, region) : t \in UpstreamTitles}] :
                        n \in 0..MaxPageItems}}

\* a page loop that starts the list over at a failed page
AggregateFromLastFailure(all, outcome) == IF outcome.ok THEN all \o outcome.body ELSE <<>>

\* the page loop's body: a failed page is skipped, a fetched one appended
Aggregate(all, outcome) == IF outcome.ok THEN all \o outcome.body ELSE all

\* a cap that keeps the newest 33 articles instead of the first 33
CapKeepsLast(all) ==
    IF Len(all) > ArticleCap THEN SubSeq(all, Len(all) - ArticleCap + 1, Len(all)) ELSE all

\* allArticles[:33]
Cap(all) == IF Len(all) > ArticleCap THEN SubSeq(all, 1, ArticleCap) ELSE all

RECURSIVE UpsertAll(_, _, _)
\* the operations of one BulkWrite applied to the collection, one after the
\* other: [coll, id, stored], stored = UpsertedCount + ModifiedCount
UpsertAll(coll, id, ops) ==
    IF ops = <<>> THEN [coll |-> coll, id |-> id, stored |-> 0]
    ELSE LET it == Head(ops)
             ms == Matching(coll, it.key)
         IN IF ms = {}
            THEN LET r == UpsertAll(InsertDoc(coll, id, it), id + 1, Tail(ops))
                 IN [r EXCEPT !.stored = @ + 1]
            ELSE LET m == CHOOSE d \in ms : TRUE
                     c2 == ReplaceDoc(coll, m, it)
                     r == UpsertAll(c2, id, Tail(ops))
                 IN [r EXCEPT !.stored = @ + (IF c2 # coll THEN 1 ELSE 0)]

\* storeArticles' loop: one ReplaceOne upsert per article of the list, in the
\* list's order, its filter the article's URL
Operations(list) == [i \in 1..Len(list) |-> list[i]]

RECURSIVE Pick(_, _, _)
\* the operations of ops whose index is in S, in order
Pick(ops, S, i) ==
    IF i > Len(ops) THEN <<>>
    ELSE (IF i \in S THEN <<ops[i]>> ELSE <<>>) \o Pick(ops, S, i + 1)

\* err.Error() of the error BulkWrite returned
StoreErrorText == "bulk write exception"

\* a FetchRegionNews that drops storeArticles' error
FetchReturnStoreErrorDropped(req, items, storeErr, expired, stored) ==
    IF expired
    THEN [result |-> [region |-> req.region, requestId |-> req.requestId,
                      success |-> FALSE, articleCount |-> 0,
                      error |-> ""],
          err |-> TRUE]
    ELSE IF items = 0
    THEN [result |-> [region |-> req.region, requestId |-> req.requestId,
                      success |-> FALSE, articleCount |-> 0,
                      error |-> "No articles fetched"],
          err |-> TRUE]
    ELSE [result |-> [region |-> req.region, requestId |-> req.requestId,
                      success |-> TRUE, articleCount |-> stored,
                      error |-> ""],
          err |-> FALSE]

\* FetchRegionNews' return value: the FetchResult and whether err # nil
FetchReturn(req, items, storeErr, expired, stored) ==
    IF expired
    THEN [result |-> [region |-> req.region, requestId |-> req.requestId,
                      success |-> FALSE, articleCount |-> 0,
                      error |-> ""],
          err |-> TRUE]
    ELSE IF items = 0
    THEN [result |-> [region |-> req.region, requestId |-> req.requestId,
                      success |-> FALSE, articleCount |-> 0,
                      error |-> "No articles fetched"],
          err |-> TRUE]
    ELSE IF storeErr
    THEN [result |-> [region |-> req.region, requestId |-> req.requestId,
                      success |-> FALSE, articleCount |-> 0,
                      error |-> StoreErrorText],
          err |-> TRUE]
    ELSE [result |-> [region |-> req.region, requestId |-> req.requestId,
                      success |-> TRUE, articleCount |-> stored,
                      error |-> ""],
          err |-> FALSE]

\* a handler that acknowledges whatever FetchRegionNews returned
AckAlways(err) == "ack"

\* handleFetchRequest: Nak when FetchRegionNews returned an error, else Ack
AckOrNak(err) == IF err THEN "nak" ELSE "ack"

\* a handler that Naks a request whose result it could not publish
HandlerAnswerNeedsPublish(err, pubOk) == IF pubOk THEN AckOrNak(err) ELSE "nak"

\* handleFetchRequest past FetchRegionNews: publishResult only logs a failed
\* marshal or publish, and the answer follows from FetchRegionNews' error
HandlerAnswer(err, pubOk) == AckOrNak(err)

\* an error branch without its return: the Nak is followed by the Ack of the
\* success path
HandlerAnswersFallThrough(decoded, err, pubOk) ==
    IF ~decoded THEN <<"nak">>
    ELSE IF err THEN <<"nak", "ack">>
    ELSE <<"ack">>

\* the msg.Ack() / msg.Nak() calls of one handleFetchRequest call, in order:
\* the unmarshal branch Naks and returns, the error branch Naks and returns,
\* the success path Acks
HandlerAnswers(decoded, err, pubOk) ==
    IF ~decoded THEN <<"nak">> ELSE <<HandlerAnswer(err, pubOk)>>

(* ---- actions ---- *)

\* scheduleRegionFetches: regions := []string{"us", "in", "de"}, published in
\* this order (the model keeps the first two)
ScheduleRegions == <<"us", "in">>

\* js.Publish("news.fetch.request", data): the next request of a scheduling
\* round is enqueued.  ok: the payload decodes as a FetchRequest.
Publish ==
    /\ Len(published) < MaxMsgs
    /\ \E ok \in BOOLEAN :
         published' = Append(published,
                             [region |-> ScheduleRegions[(Len(published) % 2) + 1],
                              requestId |-> Len(published) + 1,
                              ok |-> ok])
    /\ inStream' = inStream \cup {Len(published) + 1}
    /\ last' = NoLast
    /\ UNCHANGED <<consumer, inst, h, total, acked, nonzero, starts, storeVars, sf,
                   videoVars, auxVars>>

\* main: NewWorker (setupStreams, cleanupConsumer of the new name, NewFetcher
\* with ensureIndexes, whose failure SpecStore covers: nothing here reads the
\* index), then Start: AddConsumer and PullSubscribe.  NEWS_FETCH is a
\* WorkQueuePolicy stream: the server refuses a second consumer whose filter
\* subject overlaps an existing one, Start returns the error and main ends
\* with log.Fatal.
StartWorker(w) ==
    /\ inst[w].st = "down"
    /\ starts < MaxStarts
    /\ EnsureIndexes("articles", TRUE)
    /\ IF consumer.exists
       THEN UNCHANGED <<consumer, inst, h, starts>>
       ELSE /\ inst' = [inst EXCEPT ![w] = [st |-> "running", inc |-> @.inc + 1]]
            /\ consumer' = [NoConsumer EXCEPT !.exists = TRUE,
                                              !.name = <<w, inst[w].inc + 1>>]
            /\ h' = [h EXCEPT ![w] = IdleHandler]
            /\ starts' = starts + 1
    /\ last' = NoLast
    /\ UNCHANGED <<published, inStream, total, acked, nonzero, articles, videos, nextId, bw,
                   lastUp, sf,
                   videoVars, auxVars>>

\* processMessages: sub.Fetch(1) returns a message (also to a pull that was
\* waiting when the context was cancelled) and handleFetchRequest starts on
\* it; a payload that does not unmarshal is Nak'd at once.
Fetch(w) ==
    LET s == NextDelivery(consumer)
        c2 == Deliver(consumer, s)
    IN /\ inst[w].st # "down"
       /\ h[w].pc = "idle"
       /\ Reaches(ConsumerName(w))
       /\ Cardinality(consumer.pending) < WorkerCount
       /\ s # 0
       /\ total' = [total EXCEPT ![s] = @ + 1]
       /\ IF published[s].ok
          THEN /\ h' = [h EXCEPT ![w] = [IdleHandler EXCEPT !.pc = "pages", !.seq = s,
                                             !.page = 1, !.cname = ConsumerName(w)]]
               /\ consumer' = c2
               /\ last' = NoLast
               /\ UNCHANGED nonzero
          ELSE /\ consumer' = NakEffect(c2, s)
               /\ last' = [NoLast EXCEPT !.done = TRUE, !.w = w, !.seq = s, !.ack = "nak",
                                         !.answers = HandlerAnswers(FALSE, TRUE, FALSE)]
               /\ nonzero' = nonzero \cup {s}
               /\ h' = [h EXCEPT ![w] = AfterHandler(w)]
       /\ UNCHANGED <<published, inStream, inst, acked, starts, storeVars, sf, videoVars, auxVars>>

\* processMessages: the pull times out with no message, the select sees
\* ctx.Done() and the loop returns.
LoopExit(w) ==
    /\ inst[w].st \in {"cancelled", "cleaned"}
    /\ h[w].pc = "idle"
    /\ h' = [h EXCEPT ![w].pc = "stopped"]
    /\ last' = NoLast
    /\ UNCHANGED <<published, inStream, consumer, inst, total, acked, nonzero, starts,
                   storeVars, sf, videoVars, auxVars>>

\* the handler returns: publishResult (the publish may fail, which is only
\* logged), then Ack or Nak
Return(w, ret, items, storeErr, expired, pubOk) ==
    /\ Answer(w, HandlerAnswer(ret.err, pubOk))
    /\ last' = [done |-> TRUE, w |-> w, seq |-> h[w].seq, decoded |-> TRUE,
                items |-> items,
                anyFail |-> \E i \in 1..Len(h[w].log) : ~h[w].log[i].ok,
                storeErr |-> storeErr, expired |-> expired,
                result |-> ret.result, published |-> pubOk,
                ack |-> HandlerAnswer(ret.err, pubOk),
                answers |-> HandlerAnswers(TRUE, ret.err, pubOk)]
    /\ acked' = IF HandlerAnswer(ret.err, pubOk) = "ack"
                THEN [acked EXCEPT ![h[w].seq] =
                        IF \E i \in 1..Len(h[w].log) : ~h[w].log[i].ok
                        THEN "partial" ELSE "full"]
                ELSE acked
    /\ nonzero' = IF items = 0 /\ ~expired THEN nonzero ELSE nonzero \cup {h[w].seq}
    /\ h' = [h EXCEPT ![w] = AfterHandler(w)]

\* one iteration of the page loop with the context still live: fetchPage
FetchPage(w) ==
    /\ Busy(w)
    /\ h[w].page <= MaxPages
    /\ \E o \in PageOutcomes(published[h[w].seq].region, h[w].page) :
         h' = [h EXCEPT ![w].all = Aggregate(@, o),
                        ![w].log = Append(@, o),
                        ![w].page = @ + 1]
    /\ last' = NoLast
    /\ UNCHANGED <<published, inStream, consumer, inst, total, acked, nonzero, starts,
                   storeVars, sf, videoVars, auxVars>>

\* the page loop finds the handler's 5-minute context expired:
\* case <-ctx.Done(): return result, ctx.Err()
Timeout(w) ==
    /\ Busy(w)
    /\ h[w].page <= MaxPages
    /\ \E pubOk \in BOOLEAN :
         Return(w, FetchReturn(published[h[w].seq], Len(h[w].all), FALSE, TRUE, 0),
                Len(h[w].all), FALSE, TRUE, pubOk)
    /\ UNCHANGED <<published, inst, total, starts, storeVars, sf, videoVars, auxVars>>

\* after the loop: the zero-articles return, or the cap, storeArticles (the
\* bulk write succeeds, or fails, the context expiring being one cause, with
\* any part of it applied) and the result
Finish(w) ==
    LET req == published[h[w].seq]
        ops == Operations(Cap(h[w].all))
    IN /\ Busy(w)
       /\ h[w].page > MaxPages
       /\ IF Len(h[w].all) = 0
          THEN /\ \E pubOk \in BOOLEAN :
                    Return(w, FetchReturn(req, 0, FALSE, FALSE, 0), 0, FALSE, FALSE, pubOk)
               /\ UNCHANGED <<articles, nextId>>
          ELSE \E S \in SUBSET (1..Len(ops)), storeErr \in BOOLEAN, pubOk \in BOOLEAN :
                 LET r == UpsertAll(articles, nextId, Pick(ops, S, 1))
                 IN /\ storeErr \/ S = 1..Len(ops)
                    /\ articles' = r.coll
                    /\ nextId' = r.id
                    /\ Return(w, FetchReturn(req, Len(h[w].all), storeErr, FALSE, r.stored),
                              Len(h[w].all), storeErr, FALSE, pubOk)
       /\ UNCHANGED <<published, inst, total, starts, videos, uniqueIndex, bw, lastUp, sf,
                   videoVars, auxVars>>

\* AckWait (30 s) passes for an unanswered delivery: the server schedules it
\* for redelivery
AckWaitExpire ==
    /\ consumer.exists
    /\ \E s \in consumer.pending : consumer' = NakEffect(consumer, s)
    /\ last' = NoLast
    /\ UNCHANGED <<published, inStream, inst, h, total, acked, nonzero, starts,
                   storeVars, sf, videoVars, auxVars>>

\* SIGINT / SIGTERM: main cancels the context
Shutdown(w) ==
    /\ inst[w].st = "running"
    /\ inst' = [inst EXCEPT ![w].st = "cancelled"]
    /\ last' = NoLast
    /\ UNCHANGED <<published, inStream, consumer, h, total, acked, nonzero, starts,
                   storeVars, sf, videoVars, auxVars>>

\* Start, past <-ctx.Done(): cleanupConsumer deletes the worker's consumer and
\* Start returns; processMessages is not waited for
Cleanup(w) ==
    /\ inst[w].st = "cancelled"
    /\ inst' = [inst EXCEPT ![w].st = "cleaned"]
    /\ consumer' = IF Reaches(ConsumerName(w)) THEN NoConsumer ELSE consumer
    /\ last' = NoLast
    /\ UNCHANGED <<published, inStream, h, total, acked, nonzero, starts, storeVars, sf,
                   videoVars, auxVars>>

\* main returns (its deferred calls have run) and the process ends, with
\* whatever handleFetchRequest was doing
Exit(w) ==
    /\ inst[w].st = "cleaned"
    /\ inst' = [inst EXCEPT ![w].st = "down"]
    /\ h' = [h EXCEPT ![w] = IdleHandler]
    /\ nonzero' = IF Busy(w) THEN nonzero \cup {h[w].seq} ELSE nonzero
    /\ last' = NoLast
    /\ UNCHANGED <<published, inStream, consumer, total, acked, starts, storeVars, sf,
                   videoVars, auxVars>>

\* the process dies (kill, OOM, node loss); its durable consumer stays
Crash(w) ==
    /\ inst[w].st \in {"running", "cancelled"}
    /\ inst' = [inst EXCEPT ![w].st = "down"]
    /\ h' = [h EXCEPT ![w] = IdleHandler]
    /\ nonzero' = IF Busy(w) THEN nonzero \cup {h[w].seq} ELSE nonzero
    /\ last' = NoLast
    /\ UNCHANGED <<published, inStream, consumer, total, acked, starts, storeVars, sf,
                   videoVars, auxVars>>

QueueInit ==
    /\ published = <<>>
    /\ inStream = {}
    /\ consumer = NoConsumer
    /\ inst = [w \in Instances |-> [st |-> "down", inc |-> 0]]
    /\ h = [w \in Instances |-> IdleHandler]
    /\ last = NoLast
    /\ total = [s \in Seqs |-> 0]
    /\ acked = [s \in Seqs |-> "no"]
    /\ nonzero = {}
    /\ starts = 0

(***************************************************************************)
(* The video worker (video-service): Start subscribes to "fetch.videos"   *)
(* on the core NATS connection; handleFetchRequest runs FetchVideos.       *)
(***************************************************************************)
\* requests published to fetch.videos in the model
MaxVideoMsgs == 2
\* videos one upstream response returns in the model
MaxVideos == 2

IdleVideoHandler == [pc |-> "idle", id |-> 0, list |-> <<>>]

NoVideoResult == [requestId |-> 0, success |-> FALSE, videosCount |-> 0, error |-> ""]

NoVideoLast == [done |-> FALSE, w |-> None, id |-> 0, decoded |-> FALSE, items |-> 0,
                fetchErr |-> FALSE, storeErr |-> FALSE, result |-> NoVideoResult,
                published |-> FALSE, ack |-> None]

\* fetchTrendingVideos: an error (transport, status, decode), or the videos
\* of the response with Region set to the request's
VideoOutcomes(region) ==
    {[ok |-> FALSE, body |-> <<>>]} \cup
    {[ok |-> TRUE, body |-> b] :
        b \in UNION {[1..n -> {Item(k, t, region) : k \in Keys, t \in UpstreamTitles}] :
                        n \in 0..MaxVideos}}

\* FetchVideos' return value: the FetchResult (RequestID is the request's) and
\* whether err # nil
VideoFetchReturn(id, fetchErr, items, storeErr, stored) ==
    IF fetchErr
    THEN [result |-> [requestId |-> id, success |-> FALSE, videosCount |-> 0,
                      error |-> "upstream error"],
          err |-> TRUE]
    ELSE IF items = 0
    THEN [result |-> [requestId |-> id, success |-> FALSE, videosCount |-> 0,
                      error |-> "No videos fetched"],
          err |-> TRUE]
    ELSE IF storeErr
    THEN [result |-> [requestId |-> id, success |-> FALSE, videosCount |-> 0,
                      error |-> StoreErrorText],
          err |-> TRUE]
    ELSE [result |-> [requestId |-> id, success |-> TRUE, videosCount |-> stored,
                      error |-> ""],
          err |-> FALSE]

\* handleFetchRequest of the video worker: on an error it logs and returns;
\* otherwise it publishes the result.  A core NATS message has no Ack / Nak.
VideoPublishes(err) == ~err

VideoAnswer(err) == None

\* main of video-service: NewWorker (NewFetcher with ensureIndexes), Start
VideoStart(w) ==
    /\ w \notin vsub
    /\ vsub' = vsub \cup {w}
    /\ \E ok \in BOOLEAN : EnsureIndexes("videos", ok)
    /\ vlast' = NoVideoLast
    /\ UNCHANGED <<vreqs, vinbox, vh, vrecv, articles, videos, nextId, bw, lastUp, sf,
                   queueVars, auxVars>>

\* natsConn.Publish("fetch.videos", data), as scheduleVideoFetches of a running
\* worker does: the server hands a copy to every subscription on the subject.
\* ok: the payload decodes as a FetchRequest.
VideoSchedule(w) ==
    /\ w \in vsub
    /\ Len(vreqs) < MaxVideoMsgs
    /\ \E region \in Regions, ok \in BOOLEAN :
         vreqs' = Append(vreqs, [region |-> region, ok |-> ok])
    /\ vinbox' = [x \in Instances |->
                    IF x \in vsub THEN Append(vinbox[x], Len(vreqs) + 1) ELSE vinbox[x]]
    /\ vlast' = NoVideoLast
    /\ UNCHANGED <<vsub, vh, vrecv, storeVars, sf, queueVars, auxVars>>

\* the subscription's callback is invoked with the next message
VideoReceive(w) ==
    /\ w \in vsub
    /\ vh[w].pc = "idle"
    /\ vinbox[w] # <<>>
    /\ vinbox' = [vinbox EXCEPT ![w] = Tail(@)]
    /\ vrecv' = [vrecv EXCEPT ![Head(vinbox[w])] = @ \cup {w}]
    /\ IF vreqs[Head(vinbox[w])].ok
       THEN /\ vh' = [vh EXCEPT ![w] = [pc |-> "fetch", id |-> Head(vinbox[w]),
                                        list |-> <<>>]]
            /\ vlast' = NoVideoLast
       ELSE /\ vlast' = [NoVideoLast EXCEPT !.done = TRUE, !.w = w,
                                            !.id = Head(vinbox[w])]
            /\ UNCHANGED vh
    /\ UNCHANGED <<vsub, vreqs, storeVars, sf, queueVars, auxVars>>

\* the handler returns
VideoReturn(w, ret, items, fetchErr, storeErr) ==
    /\ vlast' = [done |-> TRUE, w |-> w, id |-> vh[w].id, decoded |-> TRUE,
                 items |-> items, fetchErr |-> fetchErr, storeErr |-> storeErr,
                 result |-> ret.result, published |-> VideoPublishes(ret.err),
                 ack |-> VideoAnswer(ret.err)]
    /\ vh' = [vh EXCEPT ![w] = IdleVideoHandler]

\* FetchVideos: fetchTrendingVideos, the error and the no-videos returns
VideoFetch(w) ==
    LET req == vreqs[vh[w].id]
    IN /\ vh[w].pc = "fetch"
       /\ \E o \in VideoOutcomes(req.region) :
            IF ~o.ok
            THEN VideoReturn(w, VideoFetchReturn(vh[w].id, TRUE, 0, FALSE, 0),
                             0, TRUE, FALSE)
            ELSE IF Len(o.body) = 0
            THEN VideoReturn(w, VideoFetchReturn(vh[w].id, FALSE, 0, FALSE, 0),
                             0, FALSE, FALSE)
            ELSE /\ vh' = [vh EXCEPT ![w].pc = "store", ![w].list = o.body]
                 /\ vlast' = NoVideoLast
       /\ UNCHANGED <<vsub, vreqs, vinbox, vrecv, storeVars, sf, queueVars, auxVars>>

\* FetchVideos: storeVideos (an ordered bulk write stops at the first
\* operation that fails) and the result
VideoStore(w) ==
    LET ops == vh[w].list
    IN /\ vh[w].pc = "store"
       /\ \E k \in 0..Len(ops) :
            LET r == UpsertAll(videos, nextId, SubSeq(ops, 1, k))
                storeErr == k < Len(ops)
            IN /\ videos' = r.coll
               /\ nextId' = r.id
               /\ VideoReturn(w, VideoFetchReturn(vh[w].id, FALSE, Len(ops), storeErr,
                                                  r.stored),
                              Len(ops), FALSE, storeErr)
       /\ UNCHANGED <<vsub, vreqs, vinbox, vrecv, articles, uniqueIndex, bw, lastUp, sf,
                      queueVars, auxVars>>

\* Stop: the context is cancelled and the connection closed; the process ends
VideoStop(w) ==
    /\ w \in vsub
    /\ vsub' = vsub \ {w}
    /\ vinbox' = [vinbox EXCEPT ![w] = <<>>]
    /\ vh' = [vh EXCEPT ![w] = IdleVideoHandler]
    /\ vlast' = NoVideoLast
    /\ UNCHANGED <<vreqs, vrecv, storeVars, sf, queueVars, auxVars>>

VideoInit ==
    /\ vsub = {}
    /\ vreqs = <<>>
    /\ vinbox = [w \in Instances |-> <<>>]
    /\ vh = [w \in Instances |-> IdleVideoHandler]
    /\ vrecv = [i \in 1..MaxVideoMsgs |-> {}]
    /\ vlast = NoVideoLast

FetcherIdle == sf = [w \in Instances |-> [coll |-> "articles", ready |-> FALSE, n |-> 0]]

(***************************************************************************)
(* One FetchRegionNews call with the pages of a real request (MaxPages 4,  *)
(* up to 13 articles a page), followed from fetchPage to the bulk upsert.  *)
(***************************************************************************)
\* MaxPages of the requests the publishers send
RequestMaxPages == 4
\* numbers of articles the upstream returns for a page
PageSizes == {0, 1, 12, 13}
\* an article the upstream returned without a URL
EmptyKey == ""

\* the URL of article i of page p
UrlOf(p, i) == "u" \o ToString(p) \o "-" \o ToString(i)

\* fetchPage for page p: an error, or the decoded articles as they are, each
\* with Topic set to the region; blank: the articles that came without a URL
IngestOutcomes(region, p) ==
    {[ok |-> FALSE, body |-> <<>>]} \cup
    {[ok |-> TRUE,
      body |-> [i \in 1..n |->
                  Item(IF i \in blank THEN EmptyKey ELSE UrlOf(p, i), "A", region)]] :
        n \in PageSizes, blank \in {{}, {1}}}

\* a page loop that goes on with the page after the next
NextPageSkipsOne(page) == page + 2

\* page++ of the page loop
NextPage(page) == page + 1

\* the loop body's pause: time.Sleep(RateLimit) is reached when fetchPage
\* returned no error (a failed page takes `continue`) and a page follows
Sleeps(ok, page, maxPages) == ok /\ page < maxPages

\* log: for every iteration of the page loop, the page it fetched, whether
\* the fetch succeeded and whether the loop slept after it
IdleIngest == [pc |-> "idle", region |-> None, page |-> 0, all |-> <<>>, log |-> <<>>,
               ops |-> <<>>, storeErr |-> FALSE, success |-> FALSE, error |-> ""]

\* FetchRegionNews is entered
IngestStart ==
    /\ ing.pc = "idle"
    /\ \E r \in Regions : ing' = [IdleIngest EXCEPT !.pc = "pages", !.region = r, !.page = 1]
    /\ UNCHANGED <<storeVars, sf, queueVars, videoVars, poolVars, lateVars, schedVars, refreshVars, readVars>>

\* one iteration of the page loop
IngestPage ==
    /\ ing.pc = "pages"
    /\ ing.page <= RequestMaxPages
    /\ \E o \in IngestOutcomes(ing.region, ing.page) :
          ing' = [ing EXCEPT !.all = Aggregate(@, o),
                             !.log = Append(@, [page |-> ing.page, ok |-> o.ok,
                                                slept |-> Sleeps(o.ok, ing.page,
                                                                 RequestMaxPages)]),
                             !.page = NextPage(@)]
    /\ UNCHANGED <<storeVars, sf, queueVars, videoVars, poolVars, lateVars, schedVars, refreshVars, readVars>>

\* after the loop: the zero-articles return, or the cap and storeArticles;
\* the bulk write succeeds, or one of its operations fails and the unordered
\* write applies the others
IngestStore ==
    /\ ing.pc = "pages"
    /\ ing.page > RequestMaxPages
    /\ IF Len(ing.all) = 0
       THEN /\ ing' = [ing EXCEPT !.pc = "done", !.error = "No articles fetched"]
            /\ UNCHANGED <<articles, nextId>>
       ELSE LET ops == Operations(Cap(ing.all))
            IN \E k \in 0..Len(ops) :
                 LET r == UpsertAll(articles, nextId, Pick(ops, (1..Len(ops)) \ {k}, 1))
                 IN /\ articles' = r.coll
                    /\ nextId' = r.id
                    /\ ing' = [ing EXCEPT !.pc = "done", !.ops = ops,
                                          !.storeErr = (k # 0),
                                          !.success = (k = 0),
                                          !.error = IF k # 0 THEN StoreErrorText ELSE ""]
    /\ UNCHANGED <<videos, uniqueIndex, bw, lastUp, sf, queueVars, videoVars, poolVars, lateVars, schedVars, refreshVars, readVars>>

(***************************************************************************)
(* The schedulers (startScheduler of the news and of the video worker) and *)
(* the manual fetch trigger of news-service, with the wall clock the       *)
(* request identifiers are made from.                                      *)
(***************************************************************************)
\* scheduling rounds one scheduler runs in the model
MaxRounds == 2
\* last tick of the clock
MaxClock == 2
\* manual triggers called in the model
MaxTriggers == 2
\* clock ticks in a second
TicksPerSecond == 2

\* regions := []string{"us", "in", "de"} (the model keeps the first two)
NewsScopes == <<<<"us", None>>, <<"in", None>>>>
\* regions x categories of the video scheduler, in loop order (the model
\* keeps one region and its first two categories)
VideoScopes == <<<<"US", "10">>, <<"US", "24">>>>

Scopes == IF svc = "news" THEN NewsScopes ELSE VideoScopes

\* time.Now().Format("20060102-150405"): the time to the second
Format(now) == ToString(now \div TicksPerSecond)

\* worker.go generateRequestID
generateRequestID(region, now) == region \o "-" \o Format(now)

\* part_011 generateRequestID
generateVideoRequestID(region, category, now) ==
    region \o "-" \o category \o "-" \o Format(now)

\* nats_handler.go generateRequestID
generateManualRequestID(region, now) == region \o "-manual-" \o Format(now)

\* a scheduler that asks for its requests with priority "high"
ScheduledRequestHigh(scope, now, w, round) ==
    [region |-> scope[1], category |-> scope[2], priority |-> "high",
     requestId |-> IF scope[2] = None THEN generateRequestID(scope[1], now)
                   ELSE generateVideoRequestID(scope[1], scope[2], now),
     by |-> w, round |-> round]

\* the FetchRequest scheduleRegionFetches / scheduleVideoFetches builds for a
\* scope; by, round: the scheduler and its round (not part of the message)
ScheduledRequest(scope, now, w, round) ==
    [region |-> scope[1], category |-> scope[2], priority |-> "normal",
     requestId |-> IF scope[2] = None THEN generateRequestID(scope[1], now)
                   ELSE generateVideoRequestID(scope[1], scope[2], now),
     by |-> w, round |-> round]

\* the FetchRequest TriggerNewsFetch builds; round: the number of the call
ManualRequest(region, priority, now, n) ==
    [region |-> region, category |-> None, priority |-> priority,
     requestId |-> generateManualRequestID(region, now),
     by |-> "manual", round |-> n]

SchedulerOff == [pc |-> "off", i |-> 0, tick |-> 0, failed |-> {}, at |-> 0]

SchedulerRunning(w) == sch[w].pc \in {"round", "wait"}

\* Start: go w.startScheduler(ctx), and the scheduler begins its first round.
\* A news instance gets here only after AddConsumer succeeded, which the
\* work-queue stream allows one instance at a time; every video instance does.
SchedulerStart(w) ==
    /\ sch[w].pc = "off"
    /\ svc = "video" \/ \A v \in Instances : ~SchedulerRunning(v)
    /\ sch' = [sch EXCEPT ![w] = [SchedulerOff EXCEPT !.pc = "round", !.i = 1,
                                                      !.tick = 1, !.at = clock]]
    /\ UNCHANGED <<svc, clock, queue, trig, ing, storeVars, sf, queueVars, videoVars, poolVars, lateVars, refreshVars, readVars>>

\* one iteration of the loop of scheduleRegionFetches / scheduleVideoFetches:
\* the request of the next scope is published; a failed publish is logged
SchedulePublish(w) ==
    /\ sch[w].pc = "round"
    /\ sch[w].i <= Len(Scopes)
    /\ \E ok \in BOOLEAN :
         IF ok
         THEN /\ queue' = queue \cup
                            {ScheduledRequest(Scopes[sch[w].i], clock, w, sch[w].tick)}
              /\ sch' = [sch EXCEPT ![w].i = @ + 1]
         ELSE /\ sch' = [sch EXCEPT ![w].i = @ + 1, ![w].failed = @ \cup {sch[w].i}]
              /\ UNCHANGED queue
    /\ UNCHANGED <<svc, clock, trig, ing, storeVars, sf, queueVars, videoVars, poolVars, lateVars, refreshVars, readVars>>

\* the loop is over: the scheduler waits in its select
ScheduleDone(w) ==
    /\ sch[w].pc = "round"
    /\ sch[w].i > Len(Scopes)
    /\ sch' = [sch EXCEPT ![w].pc = "wait"]
    /\ UNCHANGED <<svc, clock, queue, trig, ing, storeVars, sf, queueVars, videoVars, poolVars, lateVars, refreshVars, readVars>>

\* case <-ticker.C: the next round; FetchInterval (4h by default) is a
\* second or more
SchedulerTick(w) ==
    /\ sch[w].pc = "wait"
    /\ sch[w].tick < MaxRounds
    /\ clock \div TicksPerSecond > sch[w].at \div TicksPerSecond
    /\ sch' = [sch EXCEPT ![w] = [pc |-> "round", i |-> 1, tick |-> @.tick + 1,
                                  failed |-> {}, at |-> clock]]
    /\ UNCHANGED <<svc, clock, queue, trig, ing, storeVars, sf, queueVars, videoVars, poolVars, lateVars, refreshVars, readVars>>

\* case <-ctx.Done(): the scheduler returns
SchedulerStop(w) ==
    /\ sch[w].pc = "wait"
    /\ sch' = [sch EXCEPT ![w].pc = "stopped"]
    /\ UNCHANGED <<svc, clock, queue, trig, ing, storeVars, sf, queueVars, videoVars, poolVars, lateVars, refreshVars, readVars>>

\* time passes
ClockTick ==
    /\ clock < MaxClock
    /\ clock' = clock + 1
    /\ UNCHANGED <<svc, sch, queue, trig, ing, storeVars, sf, queueVars, videoVars, poolVars, lateVars, refreshVars, readVars>>

(* ---- the manual trigger: POST /fetch/:region of news-service ---- *)

\* what a strategy's FetchNews returns for a region: no article or one
Fetched(region) == {<<>>, <<Item("k1", "A", region)>>}

\* TriggerAllRegionsFetch of nats_handler.go: regions := []string{"us", "in", "de"}
AllRegions == <<"us", "in", "de">>

\* sent: the regions whose FetchRequest the call enqueued, in order
IdleTriggerAll == [pc |-> "idle", variant |-> None, priority |-> None, i |-> 0,
                   sent |-> <<>>, ret |-> None]

\* the two NewsHandler types of package handler: the one of nats_handler.go
\* and the hybrid one the router constructs
Variants == {"nats", "hybrid"}

IdleTrigger == [pc |-> "idle", variant |-> None, region |-> None, priority |-> None,
                n |-> 0, enqueued |-> FALSE, fetched |-> FALSE, fetchOk |-> FALSE,
                ret |-> None]

\* triggerRegionFetch is called and calls TriggerNewsFetch(region, priority)
TriggerCall ==
    /\ svc = "news"
    /\ trig.pc \in {"idle", "returned"}
    /\ trig.n < MaxTriggers
    /\ \E v \in Variants, p \in {"normal", "high"} :
         trig' = [IdleTrigger EXCEPT !.pc = "called", !.variant = v, !.region = "us",
                                     !.priority = p, !.n = trig.n + 1]
    /\ UNCHANGED <<svc, clock, sch, queue, ing, storeVars, sf, queueVars, videoVars, poolVars, lateVars, refreshVars, readVars>>

\* nats_handler.go TriggerNewsFetch: the request is published and the
\* publish's error returned
TriggerNewsFetch ==
    /\ trig.pc = "called"
    /\ trig.variant = "nats"
    /\ \E ok \in BOOLEAN :
         /\ queue' = IF ok
                     THEN queue \cup {ManualRequest(trig.region, trig.priority, clock,
                                                    trig.n)}
                     ELSE queue
         /\ trig' = [trig EXCEPT !.pc = "returned", !.enqueued = ok,
                                 !.ret = IF ok THEN "ok" ELSE "error"]
    /\ UNCHANGED <<svc, clock, sch, ing, storeVars, sf, queueVars, videoVars, poolVars, lateVars, refreshVars, readVars>>

\* the hybrid TriggerNewsFetch: the strategy's FetchNews runs inside the
\* call, its error is returned, the articles are stored; no FetchRequest is
\* enqueued
TriggerNewsFetchHybrid ==
    /\ trig.pc = "called"
    /\ trig.variant = "hybrid"
    /\ \E ok \in BOOLEAN, list \in Fetched(trig.region), S \in SUBSET {1} :
         LET r == UpsertAll(articles, nextId, Pick(list, S, 1))
         IN /\ trig' = [trig EXCEPT !.pc = "returned", !.fetched = TRUE, !.fetchOk = ok,
                                    !.ret = IF ok THEN "ok" ELSE "error"]
            /\ articles' = IF ok THEN r.coll ELSE articles
            /\ nextId' = IF ok THEN r.id ELSE nextId
    /\ UNCHANGED <<svc, clock, sch, queue, ing, videos, uniqueIndex, bw, lastUp, sf,
                   queueVars, videoVars, poolVars, lateVars, refreshVars, readVars>>

\* router.go StartServer: go handler.StartScheduledFetcher(db), and there
\* fetchAndStoreArticles at the start and at every tick: for every region
\* whose fetch succeeds one UpdateOne upsert per article, a failed one only
\* logged
FetchAndStoreArticles ==
    /\ svc = "news"
    /\ \E S \in SUBSET (1..Len(ScheduleRegions)) :
         LET r == UpsertAll(articles, nextId,
                            Pick([i \in 1..Len(ScheduleRegions) |->
                                     Item("k1", "A", ScheduleRegions[i])], S, 1))
         IN /\ articles' = r.coll
            /\ nextId' = r.id
    /\ UNCHANGED <<schedVars, ing, videos, uniqueIndex, bw, lastUp, sf,
                   queueVars, videoVars, poolVars, lateVars, refreshVars, readVars>>

\* triggerAllFetch is called and calls TriggerAllRegionsFetch(priority)
TriggerAllCall ==
    /\ svc = "news"
    /\ trigAll.pc = "idle"
    /\ \E v \in Variants, p \in {"normal", "high"} :
         trigAll' = [IdleTriggerAll EXCEPT !.pc = "loop", !.variant = v, !.priority = p,
                                           !.i = 1]
    /\ UNCHANGED <<schedVars, ing, storeVars, sf, queueVars, videoVars, refreshVars,
                   readVars, poolVars, cyc, manual>>

\* nats_handler.go TriggerAllRegionsFetch, one iteration: TriggerNewsFetch
\* publishes the region's request; its error is returned at once
TriggerAllStep ==
    /\ trigAll.pc = "loop"
    /\ trigAll.variant = "nats"
    /\ trigAll.i <= Len(AllRegions)
    /\ \E ok \in BOOLEAN :
         IF ok
         THEN /\ queue' = queue \cup {ManualRequest(AllRegions[trigAll.i], trigAll.priority,
                                                     clock, trigAll.i)}
              /\ trigAll' = [trigAll EXCEPT !.i = @ + 1,
                                            !.sent = Append(@, AllRegions[trigAll.i])]
         ELSE /\ trigAll' = [trigAll EXCEPT !.pc = "returned", !.ret = "error"]
              /\ UNCHANGED queue
    /\ UNCHANGED <<svc, clock, sch, trig, ing, storeVars, sf, queueVars, videoVars,
                   refreshVars, readVars, poolVars, cyc, manual>>

\* the hybrid TriggerAllRegionsFetch, one iteration: the hybrid
\* TriggerNewsFetch fetches and stores the region inside the call; on its
\* error the loop logs and continues; no FetchRequest is enqueued
TriggerAllStepHybrid ==
    /\ trigAll.pc = "loop"
    /\ trigAll.variant = "hybrid"
    /\ trigAll.i <= Len(AllRegions)
    /\ \E ok \in BOOLEAN, list \in Fetched(AllRegions[trigAll.i]), S \in SUBSET {1} :
         LET r == UpsertAll(articles, nextId, Pick(list, S, 1))
         IN /\ articles' = IF ok THEN r.coll ELSE articles
            /\ nextId' = IF ok THEN r.id ELSE nextId
    /\ trigAll' = [trigAll EXCEPT !.i = @ + 1]
    /\ UNCHANGED <<schedVars, ing, videos, uniqueIndex, bw, lastUp, sf, queueVars,
                   videoVars, refreshVars, readVars, poolVars, cyc, manual>>

\* past the last region both loops return nil
TriggerAllReturn ==
    /\ trigAll.pc = "loop"
    /\ trigAll.i > Len(AllRegions)
    /\ trigAll' = [trigAll EXCEPT !.pc = "returned", !.ret = "ok"]
    /\ UNCHANGED <<schedVars, ing, storeVars, sf, queueVars, videoVars, refreshVars,
                   readVars, poolVars, cyc, manual>>

SchedIdle ==
    /\ clock = 0
    /\ sch = [w \in Instances |-> SchedulerOff]
    /\ queue = {}
    /\ trig = IdleTrigger

(***************************************************************************)
(* The background refreshers of the viral-stories and the memes service:   *)
(* refreshViral / refreshMemes replace the whole collection.               *)
(***************************************************************************)
\* refreshes one refresher runs in the model
MaxRefreshes == 2
\* longest list the sources return in the model
MaxFeed == 2
\* "Keep top 100 stories"
FeedCap == 100

Feeds == {"viral", "memes"}
FeedKeys == {"m1", "m2"}

\* what the sources return after deduplication (and, for viral stories, the
\* sort by score): a list without repeated keys, empty when both sources fail
FeedLists ==
    {l \in UNION {[1..n -> FeedKeys] : n \in 0..MaxFeed} :
        \A i \in 1..Len(l), j \in 1..Len(l) : i # j => l[i] # l[j]}

\* stories[:100] of refreshViral; refreshMemes keeps every meme
Top(c, l) == IF c = "viral" /\ Len(l) > FeedCap THEN SubSeq(l, 1, FeedCap) ELSE l

\* fault: a DeleteMany or InsertMany of this refresher has failed on its own
\* (a database error, not a duplicate _id)
IdleRefresh == [pc |-> "idle", docs |-> <<>>, n |-> 0, fault |-> FALSE]

\* the fetch of both sources; with nothing fetched the refresh returns
RefreshFetch(c) ==
    /\ refresh[c].pc = "idle"
    /\ refresh[c].n < MaxRefreshes
    /\ \E l \in FeedLists :
         refresh' = [refresh EXCEPT ![c] =
                       IF Len(l) = 0 THEN [@ EXCEPT !.n = @ + 1]
                       ELSE [@ EXCEPT !.pc = "fetched", !.docs = Top(c, l), !.n = @ + 1]]
    /\ UNCHANGED <<feeds, ing, schedVars, readVars, storeVars, sf, queueVars, videoVars, poolVars, lateVars>>

\* DeleteMany(ctx, {}): "Clear old stories"; an error is logged and the
\* refresh goes on
RefreshDelete(c) ==
    /\ refresh[c].pc = "fetched"
    /\ \E ok \in BOOLEAN :
         /\ feeds' = [feeds EXCEPT ![c] = IF ok THEN {} ELSE @]
         /\ refresh' = [refresh EXCEPT ![c].pc = "deleted", ![c].fault = @ \/ ~ok]
    /\ UNCHANGED <<ing, schedVars, readVars, storeVars, sf, queueVars, videoVars, poolVars, lateVars>>

\* the keys (_id) of the documents of a collection
KeysOf(coll) == {d.key : d \in coll}

\* the documents an ordered InsertMany can get in: viral stories carry their
\* own _id ("reddit_..." / "hn_..."), so the insert stops at the first
\* document whose _id is already in the collection
InsertLimit(c, coll, docs) ==
    IF c = "viral" /\ \E i \in 1..Len(docs) : docs[i] \in KeysOf(coll)
    THEN (CHOOSE i \in 1..Len(docs) :
              /\ docs[i] \in KeysOf(coll)
              /\ \A j \in 1..(i - 1) : docs[j] \notin KeysOf(coll)) - 1
    ELSE Len(docs)

\* InsertMany(ctx, docs): ordered, so a failure leaves the documents before
\* the failing one inserted; the error is logged
RefreshInsert(c) ==
    /\ refresh[c].pc = "deleted"
    /\ \E k \in 0..InsertLimit(c, feeds[c], refresh[c].docs) :
         /\ feeds' = [feeds EXCEPT ![c] =
                     @ \cup {[key |-> refresh[c].docs[i], gen |-> refresh[c].n] : i \in 1..k}]
         /\ refresh' = [refresh EXCEPT ![c].pc = "idle", ![c].docs = <<>>,
                                       ![c].fault = @ \/ k < InsertLimit(c, feeds[c], refresh[c].docs)]
    /\ UNCHANGED <<ing, schedVars, readVars, storeVars, sf, queueVars, videoVars, poolVars, lateVars>>

(***************************************************************************)
(* GET /refresh of the viral-stories service: triggerRefresh starts        *)
(* refreshViral in a goroutine of its own, next to the one backgroundRefresh *)
(* runs; nothing orders their DeleteMany and InsertMany calls.             *)
(***************************************************************************)
\* manual refreshes in the model
MaxManual == 1
\* the tag of the documents the manual refresh inserts (the background
\* refreshes tag theirs 1, 2, ...)
ManualGen == 0

IdleManual == [pc |-> "idle", docs |-> <<>>, n |-> 0, start |-> 0, overlap |-> FALSE,
               fault |-> FALSE]

\* the background refresh is running, or has started one since the manual
\* refresh began
Overlaps ==
    \/ manual.overlap
    \/ refresh["viral"].pc # "idle"
    \/ refresh["viral"].n # manual.start

\* triggerRefresh: `go refreshViral(ctx)`, then 200 "Refresh triggered"
TriggerRefresh ==
    /\ manual.pc = "idle"
    /\ manual.n < MaxManual
    /\ manual' = [pc |-> "started", docs |-> <<>>, n |-> manual.n + 1,
                  start |-> refresh["viral"].n,
                  overlap |-> refresh["viral"].pc # "idle", fault |-> manual.fault]
    /\ UNCHANGED <<storeVars, sf, queueVars, videoVars, ing, schedVars, refreshVars,
                   readVars, poolVars, cyc, trigAll>>

\* refreshViral of the manual goroutine: the fetch of both sources
ManualFetch ==
    /\ manual.pc = "started"
    /\ \E l \in FeedLists :
         manual' = [manual EXCEPT !.pc = IF Len(l) = 0 THEN "idle" ELSE "fetched",
                                  !.docs = Top("viral", l),
                                  !.overlap = Overlaps]
    /\ UNCHANGED <<storeVars, sf, queueVars, videoVars, ing, schedVars, refreshVars,
                   readVars, poolVars, cyc, trigAll>>

\* its DeleteMany(ctx, {})
ManualDelete ==
    /\ manual.pc = "fetched"
    /\ \E ok \in BOOLEAN :
         /\ feeds' = [feeds EXCEPT !["viral"] = IF ok THEN {} ELSE @]
         /\ manual' = [manual EXCEPT !.pc = "deleted", !.overlap = Overlaps,
                                     !.fault = @ \/ ~ok]
    /\ UNCHANGED <<storeVars, sf, queueVars, videoVars, ing, schedVars, refresh,
                   readVars, poolVars, cyc, trigAll>>

\* its InsertMany(ctx, docs)
ManualInsert ==
    /\ manual.pc = "deleted"
    /\ \E k \in 0..InsertLimit("viral", feeds["viral"], manual.docs) :
         /\ feeds' = [feeds EXCEPT !["viral"] =
                     @ \cup {[key |-> manual.docs[i], gen |-> ManualGen] : i \in 1..k}]
         /\ manual' = [manual EXCEPT !.pc = "idle", !.overlap = Overlaps,
                                     !.fault = @ \/ k < InsertLimit("viral", feeds["viral"], manual.docs)]
    /\ UNCHANGED <<storeVars, sf, queueVars, videoVars, ing, schedVars, refresh,
                   readVars, poolVars, cyc, trigAll>>

RefreshIdle ==
    /\ feeds = [c \in Feeds |-> {}]
    /\ refresh = [c \in Feeds |-> IdleRefresh]

(***************************************************************************)
(* The read queries: enhancedNewsHandler (GET /news-api/news), GetVideos   *)
(* and the two GetNews of package handler.                                 *)
(***************************************************************************)
\* records in the collection
MaxDocs == 3
\* largest limit / maxResults a client asks for
MaxLimit == 2
\* queries of one client
MaxReads == 2
\* the clock at the first query and its last value
FirstNow == 1
MaxNow == 2

\* limit of enhancedNewsHandler when the parameter is out of range, and of
\* the GetNews of nats_handler.go
DefaultLimit == 33
\* largest limit enhancedNewsHandler accepts
NewsLimitCap == 100
\* SetLimit(50) of the hybrid GetNews
HybridLimit == 50
\* "1 second buffer"
FetchBuffer == 1

Docs == 1..MaxDocs
ReadVariants == {"enhanced", "videos", "nats", "hybrid"}
Paged(v) == v \in {"enhanced", "videos"}

\* mapRegionToCode on the names it knows; other input comes back as it is
mapRegionToCode(region) ==
    CASE region \in {"india", "in"} -> "in"
      [] region \in {"usa", "us", "america"} -> "us"
      [] region \in {"germany", "de", "deutschland"} -> "de"
      [] OTHER -> region

\* the limit a handler applies for the limit the client asked for (GetVideos
\* answers 400 to a maxResults out of range: the model asks within range)
LimitOf(v, limit) ==
    CASE v = "enhanced" -> IF limit < 1 \/ limit > NewsLimitCap THEN DefaultLimit ELSE limit
      [] v = "videos" -> limit
      [] v = "nats" -> DefaultLimit
      [] OTHER -> HybridLimit

\* the filter: the scope, and for enhancedNewsHandler fetchedAt <= start - 1s
Match(v, scope, t) ==
    {d \in Docs : /\ lib[d].scope = scope
                  /\ v = "enhanced" => lib[d].fetchedAt <= t - FetchBuffer}

\* a may come before b in the sorted result: enhancedNewsHandler sorts on
\* publishedAt descending, then _id; GetVideos and the GetNews of
\* nats_handler.go on publishedAt descending alone (the server orders ties as
\* it likes); the hybrid GetNews on "fetchedat", a field no record has
Before(v, a, b) ==
    CASE v = "enhanced" ->
            \/ lib[a].publishedAt > lib[b].publishedAt
            \/ lib[a].publishedAt = lib[b].publishedAt /\ a < b
      [] v \in {"videos", "nats"} -> lib[a].publishedAt >= lib[b].publishedAt
      [] OTHER -> TRUE

\* the orders in which the server can return the records of D
Orders(v, D) ==
    {l \in [1..Cardinality(D) -> D] :
        /\ \A i \in 1..Len(l), j \in 1..Len(l) : i # j => l[i] # l[j]
        /\ \A i \in 1..Len(l), j \in 1..Len(l) : i < j => Before(v, l[i], l[j])}

\* $skip (page - 1) * limit, $limit limit
PageOf(l, page, limit) ==
    LET skip == (page - 1) * limit
        end == IF skip + limit < Len(l) THEN skip + limit ELSE Len(l)
    IN SubSeq(l, skip + 1, end)

\* what a query can return
Query(v, scope, page, limit, t) ==
    {PageOf(l, page, LimitOf(v, limit)) : l \in Orders(v, Match(v, scope, t))}

\* the first query of a client: a handler, a region, a page, a limit
ReadFirst ==
    /\ reads = <<>>
    /\ \E v \in ReadVariants, region \in Regions, page \in 1..2, limit \in 1..MaxLimit :
         /\ Paged(v) \/ (page = 1 /\ limit = 1)
         /\ \E r \in Query(v, mapRegionToCode(region), page, limit, readNow) :
              reads' = <<[variant |-> v, scope |-> mapRegionToCode(region), page |-> page,
                          limit |-> limit, result |-> r]>>
    /\ UNCHANGED <<lib, readNow, ing, schedVars, refreshVars, storeVars, sf, queueVars, videoVars, poolVars, lateVars>>

\* the client asks the same handler for a page of the same region and limit
ReadNext ==
    /\ reads # <<>>
    /\ Len(reads) < MaxReads
    /\ Paged(reads[1].variant)
    /\ \E page \in 1..2 :
         \E r \in Query(reads[1].variant, reads[1].scope, page, reads[1].limit, readNow) :
            reads' = Append(reads, [reads[1] EXCEPT !.page = page, !.result = r])
    /\ UNCHANGED <<lib, readNow, ing, schedVars, refreshVars, storeVars, sf, queueVars, videoVars, poolVars, lateVars>>

\* time passes at the Read API
ReadClockTick ==
    /\ readNow < MaxNow
    /\ readNow' = readNow + 1
    /\ UNCHANGED <<lib, reads, ing, schedVars, refreshVars, storeVars, sf, queueVars, videoVars, poolVars, lateVars>>

ReadIdle ==
    /\ readNow = FirstNow
    /\ reads = <<>>

(***************************************************************************)
(* One worker pool: the consumer of news.fetch.request that Start creates  *)
(* and the goroutines that run handleFetchRequest.  Two Starts exist: the  *)
(* pull one (PullSubscribe and the processMessages loop) and the push one  *)
(* (js.Subscribe with handleFetchRequest as the callback).                 *)
(***************************************************************************)
MaxPoolMsgs == 4
MaxPushDeliver == 2

PoolMsgs == 1..MaxPoolMsgs

PoolVariants == {"pull", "push"}

\* the pull Start's consumerConfig has MaxDeliver: 3; the push Start sets no
\* MaxDeliver (unlimited: the model stops counting at MaxPushDeliver)
DeliverLimit(variant) == IF variant = "pull" THEN MaxDeliver ELSE MaxPushDeliver

\* stream: the requests stored in NEWS_FETCH; pending: delivered and not
\* answered; inbox: pushed to the subscription and not yet handed to the
\* callback; busy: the request handleFetchRequest is running on, or 0
IdlePool(variant) ==
    [variant |-> variant, n |-> 0, stream |-> {},
     delivered |-> [s \in PoolMsgs |-> 0], pending |-> {}, redeliver |-> {},
     inbox |-> <<>>, busy |-> 0]

\* a server that never delivers a message a second time
PoolNextFreshOnly(p) ==
    LET fresh == {s \in p.stream : p.delivered[s] = 0}
    IN IF fresh # {} THEN Least(fresh) ELSE 0

\* the message the server delivers next: redeliveries first, then the next
\* message not yet delivered; 0 if none
PoolNext(p) ==
    LET again == {s \in p.redeliver \cap p.stream : p.delivered[s] < DeliverLimit(p.variant)}
        fresh == {s \in p.stream : p.delivered[s] = 0}
    IN IF again # {} THEN Least(again)
       ELSE IF fresh # {} THEN Least(fresh)
       ELSE 0

\* a consumer without MaxAckPending
PoolCanDeliverUnbounded(p) == PoolNext(p) # 0

\* MaxAckPending: w.config.WorkerCount: the server delivers only while fewer
\* than WorkerCount deliveries are unanswered
PoolCanDeliver(p) == Cardinality(p.pending) < WorkerCount /\ PoolNext(p) # 0

PoolDeliver(p, s) ==
    [p EXCEPT !.delivered[s] = @ + 1, !.pending = @ \cup {s}, !.redeliver = @ \ {s}]

\* the scheduler or a trigger publishes a FetchRequest
PoolPublish ==
    /\ pool.n < MaxPoolMsgs
    /\ pool' = [pool EXCEPT !.n = @ + 1, !.stream = @ \cup {pool.n + 1}]
    /\ UNCHANGED <<storeVars, sf, queueVars, videoVars, ing, schedVars, refreshVars, readVars, lateVars>>

\* pull Start: processMessages, the one goroutine of the pool, is between
\* two requests; its sub.Fetch(1) returns a message and the loop calls
\* handleFetchRequest on it
PoolFetch ==
    /\ pool.variant = "pull"
    /\ pool.busy = 0
    /\ PoolCanDeliver(pool)
    /\ pool' = [PoolDeliver(pool, PoolNext(pool)) EXCEPT !.busy = PoolNext(pool)]
    /\ UNCHANGED <<storeVars, sf, queueVars, videoVars, ing, schedVars, refreshVars, readVars, lateVars>>

\* push Start: the server pushes the next message to the subscription
PoolPush ==
    /\ pool.variant = "push"
    /\ PoolCanDeliver(pool)
    /\ pool' = [PoolDeliver(pool, PoolNext(pool)) EXCEPT !.inbox = Append(@, PoolNext(pool))]
    /\ UNCHANGED <<storeVars, sf, queueVars, videoVars, ing, schedVars, refreshVars, readVars, lateVars>>

\* push Start: the subscription's one dispatcher goroutine calls the
\* callback handleFetchRequest on the next message, after the call for the
\* message before it returned
PoolCallback ==
    /\ pool.variant = "push"
    /\ pool.busy = 0
    /\ pool.inbox # <<>>
    /\ pool' = [pool EXCEPT !.busy = Head(pool.inbox), !.inbox = Tail(@)]
    /\ UNCHANGED <<storeVars, sf, queueVars, videoVars, ing, schedVars, refreshVars, readVars, lateVars>>

\* handleFetchRequest returns, having answered with msg.Ack() or msg.Nak()
PoolReturn ==
    /\ pool.busy # 0
    /\ \E ans \in {"ack", "nak"} :
         pool' = IF ans = "ack"
                 THEN [pool EXCEPT !.busy = 0, !.stream = @ \ {pool.busy},
                                   !.pending = @ \ {pool.busy},
                                   !.redeliver = @ \ {pool.busy}]
                 ELSE IF pool.busy \in pool.pending
                 THEN [pool EXCEPT !.busy = 0, !.pending = @ \ {pool.busy},
                                   !.redeliver = @ \cup {pool.busy}]
                 ELSE [pool EXCEPT !.busy = 0]
    /\ UNCHANGED <<storeVars, sf, queueVars, videoVars, ing, schedVars, refreshVars, readVars, lateVars>>

\* AckWait passes for an unanswered delivery
PoolAckWaitExpire ==
    /\ \E s \in pool.pending :
         pool' = [pool EXCEPT !.pending = @ \ {s}, !.redeliver = @ \cup {s}]
    /\ UNCHANGED <<storeVars, sf, queueVars, videoVars, ing, schedVars, refreshVars, readVars, lateVars>>

PoolIdle == pool = IdlePool("pull")

(***************************************************************************)
(* One scheduled fetch cycle: every running instance's scheduler enqueues  *)
(* a request per region, and the pool's worker fetches the pages of every  *)
(* delivery.  calls[r] counts the upstream page requests made for request  *)
(* r over all of its deliveries.                                           *)
(***************************************************************************)
\* replacements of the worker process (and with it of its consumer) in one cycle
MaxCycleRestarts == 1
\* pages a handler has fetched when it finds its context expired
PagesBeforeExpiry == {1}

\* regions := []string{"us", "in", "de"}
CycleRegions == <<"us", "in", "de">>

\* requests enqueued in one cycle by all instances together
MaxCycleReqs == 3

CycleReqs == 1..MaxCycleReqs

IdleCycle ==
    [scheduled |-> {}, reqs |-> <<>>,
     status |-> [r \in CycleReqs |-> "none"],
     delivered |-> [r \in CycleReqs |-> 0],
     calls |-> [r \in CycleReqs |-> 0],
     busy |-> 0, restarts |-> 0]

\* scheduleRegionFetches of instance w: one request with MaxPages: 4 per
\* region, in order; a publish that fails is logged and the loop goes on
CycleSchedule(w) ==
    /\ w \notin cyc.scheduled
    /\ \E S \in SUBSET (1..Len(CycleRegions)) :
         LET new == Pick([i \in 1..Len(CycleRegions) |->
                            [region |-> CycleRegions[i], by |-> w]], S, 1)
             all == cyc.reqs \o new
         IN /\ Len(all) <= MaxCycleReqs
            /\ cyc' = [cyc EXCEPT !.scheduled = @ \cup {w},
                                  !.reqs = all,
                                  !.status = [r \in CycleReqs |->
                                                IF r > Len(cyc.reqs) /\ r <= Len(all)
                                                THEN "queued" ELSE cyc.status[r]]]
    /\ UNCHANGED <<storeVars, sf, queueVars, videoVars, ing, schedVars, refreshVars,
                   readVars, poolVars, manual, trigAll>>

\* what the consumer hands to the next pull: a Nak'd request below
\* MaxDeliver first, then the next request not yet delivered; 0 if none
CycleNext ==
    LET again == {r \in CycleReqs : cyc.status[r] = "nak" /\ cyc.delivered[r] < MaxDeliver}
        fresh == {r \in CycleReqs : cyc.status[r] = "queued"}
    IN IF again # {} THEN Least(again)
       ELSE IF fresh # {} THEN Least(fresh)
       ELSE 0

\* processMessages: sub.Fetch(1) returns a request and handleFetchRequest
\* starts on it
CycleFetch ==
    /\ cyc.busy = 0
    /\ CycleNext # 0
    /\ cyc' = [cyc EXCEPT !.busy = CycleNext,
                          !.status[CycleNext] = "busy",
                          !.delivered[CycleNext] = @ + 1]
    /\ UNCHANGED <<storeVars, sf, queueVars, videoVars, ing, schedVars, refreshVars,
                   readVars, poolVars, manual, trigAll>>

\* the page requests of one FetchRegionNews call: every page 1..MaxPages is
\* requested, failed or not, unless the context is found expired before
PagesFetched(expiredAfter) == IF expiredAfter = 0 THEN RequestMaxPages ELSE expiredAfter

\* handleFetchRequest runs FetchRegionNews and answers: Ack when it returned
\* no error (articles fetched and stored), Nak when it returned one (context
\* expired, no articles, store error)
CycleHandle ==
    /\ cyc.busy # 0
    /\ \E expiredAfter \in {0} \cup PagesBeforeExpiry, err \in BOOLEAN :
         /\ expiredAfter # 0 => err
         /\ cyc' = [cyc EXCEPT !.busy = 0,
                               !.calls[cyc.busy] = @ + PagesFetched(expiredAfter),
                               !.status[cyc.busy] = IF AckOrNak(err) = "ack" THEN "acked"
                                                      ELSE "nak"]
    /\ UNCHANGED <<storeVars, sf, queueVars, videoVars, ing, schedVars, refreshVars,
                   readVars, poolVars, manual, trigAll>>

\* the worker process is replaced between two requests: the old process
\* deletes its consumer on shutdown and the new one creates a consumer under
\* a new name, which has delivered nothing yet
CycleRestart ==
    /\ cyc.busy = 0
    /\ cyc.restarts < MaxCycleRestarts
    /\ \E r \in CycleReqs : cyc.status[r] = "nak"
    /\ cyc' = [cyc EXCEPT !.restarts = @ + 1,
                          !.delivered = [r \in CycleReqs |-> 0],
                          !.status = [r \in CycleReqs |->
                                        IF cyc.status[r] = "nak" THEN "queued"
                                        ELSE cyc.status[r]]]
    /\ UNCHANGED <<storeVars, sf, queueVars, videoVars, ing, schedVars, refreshVars,
                   readVars, poolVars, manual, trigAll>>

LateIdle ==
    /\ cyc = IdleCycle
    /\ manual = IdleManual
    /\ trigAll = IdleTriggerAll

AuxInit ==
    /\ lib = [d \in Docs |-> [scope |-> "us", publishedAt |-> 1, fetchedAt |-> 0]]
    /\ ReadIdle
    /\ ing = IdleIngest
    /\ svc = "news"
    /\ SchedIdle
    /\ RefreshIdle
    /\ PoolIdle
    /\ LateIdle

(***************************************************************************)
(* The specifications.                                                     *)
(***************************************************************************)
vars == <<storeVars, sf, queueVars, videoVars, auxVars>>

\* the news-fetcher workers and their queue
Init ==
    /\ StoreInit
    /\ FetcherIdle
    /\ QueueInit
    /\ VideoInit
    /\ AuxInit

Next ==
    \/ Publish
    \/ AckWaitExpire
    \/ \E w \in Instances :
        \/ StartWorker(w)
        \/ Fetch(w)
        \/ LoopExit(w)
        \/ FetchPage(w)
        \/ Timeout(w)
        \/ Finish(w)
        \/ Shutdown(w)
        \/ Cleanup(w)
        \/ Exit(w)
        \/ Crash(w)

Spec == Init /\ [][Next]_vars

\* the news-fetcher workers under fair scheduling: a process that runs keeps
\* taking its steps (goroutines are scheduled, the server's AckWait timer
\* fires) and the deployment starts a replacement for a process that is down;
\* signals, crashes, context expiry and publishers are under no obligation
SpecLive ==
    /\ Spec
    /\ WF_vars(AckWaitExpire)
    /\ WF_vars(\E w \in Instances : StartWorker(w))
    /\ \A w \in Instances :
          /\ WF_vars(Fetch(w))
          /\ WF_vars(LoopExit(w))
          /\ WF_vars(FetchPage(w))
          /\ WF_vars(Finish(w))
          /\ WF_vars(Cleanup(w))
          /\ WF_vars(Exit(w))

\* the video workers
NextVideo ==
    \E w \in Instances :
        \/ VideoStart(w)
        \/ VideoSchedule(w)
        \/ VideoReceive(w)
        \/ VideoFetch(w)
        \/ VideoStore(w)
        \/ VideoStop(w)

SpecVideo == Init /\ [][NextVideo]_vars

\* the Store alone: fetchers writing batches, the queues idle
InitStore ==
    /\ StoreInit
    /\ QueueInit
    /\ VideoInit
    /\ AuxInit
    /\ \E c \in Collections :
         sf = [w \in Instances |-> [coll |-> c, ready |-> FALSE, n |-> 0]]

NextStore ==
    \E w \in Instances :
        \/ StoreNewFetcher(w)
        \/ StoreBegin(w)
        \/ StoreOp(w)
        \/ StoreInsert(w)
        \/ StoreOpFail(w)
        \/ StoreEnd(w)

SpecStore == InitStore /\ [][NextStore]_vars

\* one FetchRegionNews call against an empty collection
NextIngest ==
    \/ IngestStart
    \/ IngestPage
    \/ IngestStore

SpecIngest == Init /\ [][NextIngest]_vars

\* the schedulers of the instances of one service, the manual trigger of
\* news-service and the clock
InitSched ==
    /\ StoreInit
    /\ FetcherIdle
    /\ QueueInit
    /\ VideoInit
    /\ ing = IdleIngest
    /\ svc \in {"news", "video"}
    /\ SchedIdle
    /\ RefreshIdle
    /\ PoolIdle
    /\ LateIdle
    /\ lib = [d \in Docs |-> [scope |-> "us", publishedAt |-> 1, fetchedAt |-> 0]]
    /\ ReadIdle

NextSched ==
    \/ ClockTick
    \/ TriggerCall
    \/ TriggerNewsFetch
    \/ TriggerNewsFetchHybrid
    \/ \E w \in Instances :
        \/ SchedulerStart(w)
        \/ SchedulePublish(w)
        \/ ScheduleDone(w)
        \/ SchedulerTick(w)
        \/ SchedulerStop(w)

SpecSched == InitSched /\ [][NextSched]_vars

\* the background refreshers
NextRefresh ==
    \E c \in Feeds :
        \/ RefreshFetch(c)
        \/ RefreshDelete(c)
        \/ RefreshInsert(c)

SpecRefresh == Init /\ [][NextRefresh]_vars

\* the background refreshers and a manually triggered refresh of the viral
\* stories
NextManual ==
    \/ RefreshFetch("viral")
    \/ RefreshDelete("viral")
    \/ RefreshInsert("viral")
    \/ TriggerRefresh
    \/ ManualFetch
    \/ ManualDelete
    \/ ManualInsert

SpecManual == Init /\ [][NextManual]_vars

\* the read queries of one client against a collection that is not written:
\* records fetched at or before the first query
InitRead ==
    /\ StoreInit
    /\ FetcherIdle
    /\ QueueInit
    /\ VideoInit
    /\ ing = IdleIngest
    /\ svc = "news"
    /\ SchedIdle
    /\ RefreshIdle
    /\ PoolIdle
    /\ LateIdle
    /\ lib \in [Docs -> [scope : Regions, publishedAt : 1..2, fetchedAt : 0..FirstNow]]
    /\ ReadIdle

NextRead ==
    \/ ReadFirst
    \/ ReadNext
    \/ ReadClockTick

SpecRead == InitRead /\ [][NextRead]_vars

\* One worker pool, started by either Start, and the requests published to
\* it.
InitPool ==
    /\ StoreInit
    /\ FetcherIdle
    /\ QueueInit
    /\ VideoInit
    /\ ing = IdleIngest
    /\ svc = "news"
    /\ SchedIdle
    /\ RefreshIdle
    /\ lib = [d \in Docs |-> [scope |-> "us", publishedAt |-> 1, fetchedAt |-> 0]]
    /\ ReadIdle
    /\ LateIdle
    /\ \E v \in PoolVariants : pool = IdlePool(v)

NextPool ==
    \/ PoolPublish
    \/ PoolFetch
    \/ PoolPush
    \/ PoolCallback
    \/ PoolReturn
    \/ PoolAckWaitExpire

SpecPool == InitPool /\ [][NextPool]_vars

\* the worker stays live: the server goes on delivering, processMessages goes
\* on pulling and every handleFetchRequest call returns (its context expires
\* after 5 minutes)
SpecPoolLive ==
    /\ SpecPool
    /\ WF_vars(PoolFetch) /\ WF_vars(PoolPush) /\ WF_vars(PoolCallback) /\ WF_vars(PoolReturn)

\* One scheduled fetch cycle of the news fetcher.
NextCycle ==
    \/ \E w \in Instances : CycleSchedule(w)
    \/ CycleFetch
    \/ CycleHandle
    \/ CycleRestart

SpecCycle == Init /\ [][NextCycle]_vars

\* POST /news-api/fetch-all of the Read API, at any time of the clock.
NextFetchAll ==
    \/ TriggerAllCall
    \/ TriggerAllStep
    \/ TriggerAllStepHybrid
    \/ TriggerAllReturn
    \/ ClockTick

SpecFetchAll == Init /\ [][NextFetchAll]_vars

\* The Read API process of news-service: its routes and its background task.
NextApi ==
    \/ TriggerCall
    \/ TriggerNewsFetch
    \/ TriggerNewsFetchHybrid
    \/ FetchAndStoreArticles
    \/ ReadFirst
    \/ ReadNext
    \/ ReadClockTick
    \/ ClockTick

SpecApi == Init /\ [][NextApi]_vars

(***************************************************************************)
(* Properties.                                                             *)
(***************************************************************************)

RECURSIVE ConcatOk(_)
\* the items of the pages of a log that were fetched, in page order
ConcatOk(log) ==
    IF log = <<>> THEN <<>>
    ELSE (IF Head(log).ok THEN Head(log).body ELSE <<>>) \o ConcatOk(Tail(log))

\* C1: a delivery that a handler has received and not yet answered is not
\* processed by another worker at the same time.
C1_NoConcurrentProcessing ==
    \A w1 \in Instances, w2 \in Instances :
        (w1 # w2 /\ Busy(w1) /\ Busy(w2)) => h[w1].seq # h[w2].seq

\* C2: with several instances running, a request is handed to one instance
\* only, never to every instance.
C2_OneInstancePerRequest ==
    \A i \in 1..Len(vreqs) : Cardinality(vrecv[i]) <= 1

\* C3: a request whose every delivery ended in zero articles is delivered
\* at most 3 times in total.
C3_AtMostThreeDeliveries ==
    \A s \in Seqs : s \notin nonzero => total[s] <= MaxDeliver

\* C4: a request whose fetch yields no item (every page empty or failed)
\* ends with a result of Success = false and its delivery Nak'd, in the news
\* worker and in the video worker.
C4_ZeroItemsFailedAndNak ==
    /\ (last.done /\ last.decoded /\ ~last.expired /\ last.items = 0) =>
          (~last.result.success /\ last.ack = "nak")
    /\ (vlast.done /\ vlast.decoded /\ vlast.items = 0) =>
          (~vlast.result.success /\ vlast.ack = "nak")

\* C5: a request with some pages failed, at least one item and a successful
\* Store write is Ack'd and is not delivered again; of the outcomes of a
\* completed fetch only zero items is Nak'd.
C5_PartialFailureAckedNotRedelivered ==
    [][/\ (last'.done /\ last'.anyFail /\ last'.items > 0 /\ ~last'.storeErr
              /\ ~last'.expired) => last'.ack = "ack"
       /\ \A s \in Seqs : total'[s] > total[s] => acked[s] # "partial"
       /\ (last'.done /\ last'.decoded /\ ~last'.storeErr /\ ~last'.expired
              /\ last'.ack = "nak") => last'.items = 0]_vars

\* C6: when the bulk upsert returns an error, the request ends with a result
\* of Success = false that carries the error's text, and the delivery is Nak'd.
C6_StoreFailureFailsAndNaks ==
    (last.done /\ last.storeErr) =>
        /\ ~last.result.success
        /\ last.result.error = StoreErrorText
        /\ last.ack = "nak"

C6_Witness == last.done /\ last.storeErr /\ last.items > 0

\* C7: an upsert of a key the Store already holds leaves exactly one record
\* with that key, holding the fields of this upsert.
C7_SecondUpsertLeavesOneRecord ==
    (lastUp.coll # None /\ lastUp.existed) =>
        LET ms == Matching(Coll(lastUp.coll), lastUp.item.key)
        IN /\ Cardinality(ms) = 1
           /\ \A d \in ms : d.title = lastUp.item.title /\ d.scope = lastUp.item.scope

\* C8: whatever the interleaving of concurrent batches, a collection holds at
\* most one record per natural key.
C8_OneRecordPerKey ==
    \A c \in Collections : ~HasDuplicates(Coll(c))

\* C9: an upsert made for one scope leaves every record of another scope as
\* it was.
C9_OtherScopesUntouched ==
    [][lastUp'.coll # None =>
         \A d \in Coll(lastUp'.coll) :
             d.scope # lastUp'.item.scope =>
                 IF lastUp'.coll = "articles" THEN d \in articles' ELSE d \in videos']_vars

\* C10, as stated: the aggregated list is the items of the pages that were
\* fetched, in page order, and a request with a non-empty list is not marked
\* failed.
C10_NonEmptyListNotFailed ==
    /\ \A w \in Instances : Busy(w) => h[w].all = ConcatOk(h[w].log)
    /\ (last.done /\ last.decoded /\ last.items > 0) => last.result.success

\* C10, amended: the aggregated list is the items of the pages that were
\* fetched, in page order, and a request with a non-empty list is not marked
\* failed when the Store write succeeds and its context has not expired.
C10_NonEmptyListNotFailedIfStored ==
    /\ \A w \in Instances : Busy(w) => h[w].all = ConcatOk(h[w].log)
    /\ (last.done /\ last.decoded /\ last.items > 0 /\ ~last.storeErr /\ ~last.expired)
          => last.result.success

C10_Witness ==
    last.done /\ last.anyFail /\ last.items > 0 /\ last.result.success

\* C11: the operations handed to the bulk upsert are min(n, 33) for a list of
\* n aggregated articles, never more than 33, and they are the first ones of
\* the list in page order.
C11_CapKeepsFirst33 ==
    (ing.pc = "done" /\ Len(ing.all) > 0) =>
        /\ Len(ing.ops) <= ArticleCap
        /\ Len(ing.ops) = (IF Len(ing.all) < ArticleCap THEN Len(ing.all) ELSE ArticleCap)
        /\ \A i \in 1..Len(ing.ops) : ing.ops[i] = ing.all[i]

C11_Witness == ing.pc = "done" /\ Len(ing.all) = 50 /\ Len(ing.ops) = ArticleCap

\* C12: a handler that processed a FetchRequest has published one FetchResult
\* when it returns, whether the fetch succeeded or failed, and the result
\* carries the request's identifier and its scope, in the news worker and in
\* the video worker.
C12_OneResultPerRequest ==
    /\ (last.done /\ last.decoded) =>
          /\ last.published
          /\ last.result.requestId = published[last.seq].requestId
          /\ last.result.region = published[last.seq].region
    /\ (vlast.done /\ vlast.decoded) =>
          /\ vlast.published
          /\ vlast.result.requestId = vlast.id
          /\ "region" \in DOMAIN vlast.result

\* C13: on every path a FetchResult with Success = false carries a non-empty
\* error description and one with Success = true an empty one, the path where
\* the request's context is done between two pages included.
C13_ErrorIffFailed ==
    /\ (last.done /\ last.decoded) =>
          (last.result.success <=> last.result.error = "")
    /\ (vlast.done /\ vlast.decoded) =>
          (vlast.result.success <=> vlast.result.error = "")

\* request s is unacknowledged and the worker that holds it is gone: its
\* process died with the delivery pending on its consumer, or it is shutting
\* down (consumer deleted) with the handler still on s
Abandoned(s) ==
    /\ s \in inStream
    /\ \/ /\ consumer.exists
          /\ s \in consumer.pending
          /\ inst[consumer.name[1]].st = "down"
       \/ \E w \in Instances : inst[w].st = "cleaned" /\ Busy(w) /\ h[w].seq = s

\* request s is with the handler of a running worker, or has been acknowledged
Redelivered(s) ==
    \/ s \notin inStream
    \/ \E w \in Instances : inst[w].st = "running" /\ Busy(w) /\ h[w].seq = s

\* C14: a FetchRequest that a worker held unacknowledged when it crashed or
\* shut down is not lost: it is eventually delivered again to a running
\* worker (as long as the deployment can still start one: the model starts
\* MaxStarts processes).
C14_AbandonedRequestRedelivered ==
    \A s \in Seqs : Abandoned(s) ~> (Redelivered(s) \/ starts = MaxStarts)

\* C15: on shutdown the queue resources of a worker (its consumer) are
\* released, and its process ends, only after the request its handler has in
\* flight has run to completion.
C15_ReleaseAfterInFlight ==
    \A w \in Instances : inst[w].st = "cleaned" => ~Busy(w)

\* the requests scheduler w enqueued for a scope in its current round
RoundRequests(w, scope) ==
    {e \in queue : e.by = w /\ e.round = sch[w].tick
                      /\ <<e.region, e.category>> = scope}

\* C16, as stated: a scheduling round, the one at startup or one of a timer
\* tick, enqueues exactly one FetchRequest for every configured scope, each
\* with priority "normal".
C16_OneRequestPerScope ==
    \A w \in Instances :
        sch[w].pc = "wait" =>
            \A i \in 1..Len(Scopes) :
                /\ Cardinality(RoundRequests(w, Scopes[i])) = 1
                /\ \A e \in RoundRequests(w, Scopes[i]) : e.priority = "normal"

\* C16, amended: a scheduling round publishes once for every configured
\* scope, with priority "normal": it enqueues exactly one FetchRequest for a
\* scope whose publish succeeds and none for a scope whose publish fails.
C16_OneRequestPerPublishedScope ==
    \A w \in Instances :
        sch[w].pc = "wait" =>
            \A i \in 1..Len(Scopes) :
                /\ Cardinality(RoundRequests(w, Scopes[i])) =
                      (IF i \in sch[w].failed THEN 0 ELSE 1)
                /\ \A e \in RoundRequests(w, Scopes[i]) : e.priority = "normal"

C16_Witness ==
    \E w \in Instances :
        /\ sch[w].pc = "wait"
        /\ sch[w].tick = MaxRounds
        /\ sch[w].failed = {}
        /\ \A i \in 1..Len(Scopes) : Cardinality(RoundRequests(w, Scopes[i])) = 1

\* C17: any two FetchRequests that were enqueued, by scheduler rounds or by
\* manual triggers, carry different request identifiers.
C17_DistinctRequestIds ==
    \A e1 \in queue, e2 \in queue : e1 # e2 => e1.requestId # e2.requestId

\* C18: of the instances running at once at most one runs the scheduler, so
\* that one round of requests is enqueued per tick: no scope gets a request
\* from two instances for the same round.
C18_OneSchedulerAmongInstances ==
    /\ Cardinality({w \in Instances : SchedulerRunning(w)}) <= 1
    /\ \A e1 \in queue, e2 \in queue :
          (/\ e1.by \in Instances /\ e2.by \in Instances
           /\ SchedulerRunning(e1.by) /\ SchedulerRunning(e2.by)
           /\ e1.round = e2.round
           /\ e1.region = e2.region /\ e1.category = e2.category) => e1.by = e2.by

\* C19: a manual fetch trigger that has returned has not performed the fetch
\* itself, and what it returned is decided by the enqueueing alone: success
\* exactly when the FetchRequest was enqueued.
C19_TriggerReturnsOnEnqueue ==
    trig.pc = "returned" =>
        /\ ~trig.fetched
        /\ trig.ret = "ok" <=> trig.enqueued

\* C20: an item whose natural key is empty is dropped before the bulk upsert
\* is built: no operation of the bulk write is for it and no record of it is
\* written to the Store.
C20_EmptyKeyNeverStored ==
    /\ \A i \in 1..Len(ing.ops) : ing.ops[i].key # EmptyKey
    /\ \A d \in articles \cup videos : d.key # EmptyKey

\* C21: within one bulk upsert the failure of one record's operation does not
\* keep the other records of the batch from being applied: no operation is
\* skipped because another one failed.
C21_FailureDoesNotAbortOthers ==
    \A w \in Instances : bw[w].skipped = {}

\* C22: a collection that holds records is never left empty by a step of
\* ingestion, a failed write of the new records included.
C22_NeverEmptied ==
    [][/\ \A c \in Feeds : feeds[c] # {} => feeds'[c] # {}
       /\ articles # {} => articles' # {}
       /\ videos # {} => videos' # {}]_vars

\* the records of the collection with scope S
InScope(S) == {d \in Docs : lib[d].scope = S}

\* the records of a result, as a set
Returned(r) == {r.result[i] : i \in 1..Len(r.result)}

\* C23: with the collection unchanged, page 1 and then page 2 of the same
\* scope and limit are disjoint and, when two pages are enough to hold the
\* scope, together contain each of its records exactly once.
C23_PagesDisjointAndCovering ==
    (/\ Len(reads) = 2
     /\ reads[1].page = 1 /\ reads[2].page = 2
     /\ Cardinality(InScope(reads[1].scope)) <= 2 * reads[1].limit) =>
        /\ Returned(reads[1]) \cap Returned(reads[2]) = {}
        /\ Returned(reads[1]) \cup Returned(reads[2]) = InScope(reads[1].scope)

\* C24: a query with scope S returns only records of scope S, ordered by
\* source timestamp (publishedAt) descending.
C24_ScopedAndNewestFirst ==
    \A k \in 1..Len(reads) :
        LET r == reads[k].result
        IN /\ \A i \in 1..Len(r) : lib[r[i]].scope = reads[k].scope
           /\ \A i \in 1..Len(r), j \in 1..Len(r) :
                 i < j => lib[r[i]].publishedAt >= lib[r[j]].publishedAt

\* C25: within one request the pages are fetched one at a time in the order
\* 1..N: the k-th fetch of the loop is the fetch of page k, and the loop is at
\* page k + 1 only when k fetches have returned.
C25_PagesInOrder ==
    ing.pc # "idle" =>
        /\ Len(ing.log) = ing.page - 1
        /\ \A k \in 1..Len(ing.log) : ing.log[k].page = k

C25_Witness == ing.pc = "done" /\ Len(ing.log) = RequestMaxPages

\* C26: between two consecutive page fetches of one request the worker waits
\* the rate-limit interval, whether the earlier page succeeded or failed.
C26_WaitBetweenPages ==
    \A k \in 1..Len(ing.log) : k < Len(ing.log) => ing.log[k].slept

\* C27: a request whose handler finds its 5-minute context expired is given
\* up: the result it publishes is not a success, the delivery is answered
\* with Nak and never with Ack, and on the consumer that delivered it the
\* request stays in the stream, is no longer pending and, below MaxDeliver,
\* is scheduled for redelivery.
C27_TimeoutAbandonsUnacked ==
    last.done /\ last.expired =>
        /\ ~last.result.success
        /\ last.ack = "nak"
        /\ Reaches(ConsumerName(last.w)) =>
              /\ last.seq \in inStream
              /\ last.seq \notin consumer.pending
              /\ consumer.delivered[last.seq] < MaxDeliver
                    => last.seq \in Redeliverable(consumer)

C27_Witness ==
    /\ last.done /\ last.expired /\ last.items > 0
    /\ Reaches(ConsumerName(last.w))
    /\ last.seq \in Redeliverable(consumer)

\* the requests handleFetchRequest is running on
InProcess == IF pool.busy = 0 THEN {} ELSE {pool.busy}

\* a request is at hand for a worker: the server would hand one to a pull,
\* or one lies in the subscription's inbox
AtHand ==
    IF pool.variant = "pull" THEN PoolCanDeliver(pool) ELSE pool.inbox # <<>>

\* C28: with worker count n the pool processes up to n requests at the same
\* time: while fewer than WorkerCount requests are in process and a request
\* is at hand, a worker of the pool can start on it.
C28_FreeWorkerTakesRequest ==
    (Cardinality(InProcess) < WorkerCount /\ AtHand) => ENABLED (PoolFetch \/ PoolCallback)

\* C29: a worker pool never holds more than WorkerCount requests that were
\* delivered to it and are not yet answered.
C29_PendingAtMostWorkerCount == Cardinality(pool.pending) <= WorkerCount

C29_Witness ==
    /\ Cardinality(pool.pending) = WorkerCount
    /\ PoolNext(pool) # 0
    /\ pool.delivered[PoolNext(pool)] = 0

\* C30: no operation of the Read API (listing, triggering a fetch, the API
\* process's background tasks) creates or modifies a Store record.
C30_ReadApiLeavesStore == [][NextApi => UNCHANGED <<articles, videos>>]_vars

\* the upstream page requests of the cycle
RECURSIVE SumCalls(_)
SumCalls(r) == IF r = 0 THEN 0 ELSE cyc.calls[r] + SumCalls(r - 1)

\* C31: one scheduled fetch cycle causes at most 3 regions x 4 pages = 12
\* upstream requests in total, over every delivery of its requests and every
\* running instance.
C31_CycleWithinTwelveCalls == SumCalls(MaxCycleReqs) <= Len(CycleRegions) * RequestMaxPages

\* C35: the upstream page requests made for one request with MaxPages = p,
\* over all of its deliveries, never exceed 3 x p.
C35_RequestWithinThreeTimesPages ==
    \A r \in CycleReqs : cyc.calls[r] <= MaxDeliver * RequestMaxPages

\* a request that was acknowledged (the work queue drops it), or that is
\* not in process and has used up its deliveries
PoolTerminal(s) ==
    \/ s \notin pool.stream
    \/ /\ pool.delivered[s] >= DeliverLimit(pool.variant)
       /\ s \notin pool.pending
       /\ pool.busy # s

\* C32: with a live worker (pull Start) and fair scheduling every enqueued
\* request eventually reaches a terminal state: acknowledged, or dropped
\* after its last permitted delivery.
C32_EveryRequestTerminates ==
    \A s \in PoolMsgs : (pool.variant = "pull" /\ s \in pool.stream) ~> PoolTerminal(s)

C32_Witness ==
    /\ pool.variant = "pull"
    /\ pool.n = MaxPoolMsgs
    /\ \A s \in PoolMsgs : PoolTerminal(s)
    /\ \E s \in pool.stream : pool.delivered[s] = MaxDeliver
    /\ \E s \in PoolMsgs : s \notin pool.stream /\ pool.delivered[s] > 1

\* FetchRegionNews returned no error in the call that just returned
FetchSucceeded == last.decoded /\ ~last.expired /\ last.items > 0 /\ ~last.storeErr

\* C33: every delivery passed to handleFetchRequest is answered with exactly
\* one Ack or Nak before the handler returns, and with Ack only when
\* FetchRegionNews returned no error.
C33_ExactlyOneAnswer ==
    last.done =>
        /\ Len(last.answers) = 1
        /\ last.answers[1] \in {"ack", "nak"}
        /\ last.answers[1] = "ack" => FetchSucceeded

C33_Witness ==
    /\ last.done /\ last.answers = <<"ack">>
    /\ total[last.seq] > 1

\* C34: a request whose processing ends with Success = false leaves the
\* Store exactly as it was before the request was processed.
C34_FailedRequestLeavesStore ==
    [][last'.done /\ last'.decoded /\ ~last'.result.success => articles' = articles]_vars

\* C36: a delivery whose payload does not decode as a FetchRequest is Nak'd
\* without an upstream call, a Store write or a FetchResult publication, in
\* the news worker and in the video worker.
C36_UndecodableIsNakdOnly ==
    [][/\ last'.done /\ ~last'.decoded
          => /\ last'.ack = "nak"
             /\ ~last'.published
             /\ last'.items = 0
             /\ articles' = articles
       /\ vlast'.done /\ ~vlast'.decoded
          => /\ vlast'.ack = "nak"
             /\ ~vlast'.published
             /\ vlast'.items = 0
             /\ videos' = videos]_vars

\* C37: the answer to a request follows from the fetch and store steps alone:
\* it is Ack exactly when FetchRegionNews returned no error, whether the
\* FetchResult was published or not, and a failed publish leaves the
\* articles the request stored in the Store.
C37_PublishDoesNotDecide ==
    last.done /\ last.decoded =>
        /\ last.ack = "ack" <=> FetchSucceeded
        /\ last.result.success /\ last.result.articleCount > 0 => articles # {}

C37_Witness ==
    /\ last.done /\ ~last.published
    /\ last.ack = "ack"
    /\ last.result.articleCount > 0

\* C39: TriggerAllRegionsFetch enqueues one request per region in the order
\* us, in, de; when enqueueing a region fails it returns the error at once,
\* with the requests of the earlier regions enqueued and none for a later
\* region.
C39_AllRegionsInOrderOrError ==
    trigAll.pc = "returned" =>
        /\ Len(trigAll.sent) <= Len(AllRegions)
        /\ \A k \in 1..Len(trigAll.sent) :
              /\ trigAll.sent[k] = AllRegions[k]
              /\ \E q \in queue : q.by = "manual" /\ q.region = AllRegions[k]
        /\ trigAll.ret = "ok" => Len(trigAll.sent) = Len(AllRegions)
        /\ trigAll.ret = "error" => Len(trigAll.sent) = trigAll.i - 1
                                    /\ trigAll.i <= Len(AllRegions)

\* the documents of the viral-stories collection all come from one refresh,
\* and when that is the manual one, every story it fetched is there
OneCompleteRefresh ==
    /\ \A d, e \in feeds["viral"] : d.gen = e.gen /\ (d.key = e.key => d = e)
    /\ (\E d \in feeds["viral"] : d.gen = ManualGen) =>
           KeysOf(feeds["viral"]) = {manual.docs[i] : i \in 1..Len(manual.docs)}

\* C38: when a manual refresh has run concurrently with a background
\* refresh (and no database call failed on its own), the collection
\* afterwards holds exactly the record set of one complete refresh: no
\* record twice, none of a refresh partly missing.
C38_ConcurrentRefreshLeavesOneSet ==
    (/\ manual.n > 0 /\ manual.pc = "idle" /\ manual.overlap
     /\ refresh["viral"].pc = "idle"
     /\ ~manual.fault /\ ~refresh["viral"].fault) => OneCompleteRefresh

======================================================================
